---- MODULE Spec2Model ----
(***************************************************************************)
(* A model of scripts/config_stack.py (media-stack bootstrap): the text    *)
(* patchers of sabnzbd.ini, the Prowlarr reconcilers, the retrying HTTP    *)
(* wrappers and the readiness waits.                                       *)
(*                                                                         *)
(* Text files.  A line is a record [t, k, v, f]:                           *)
(*   t = "sec"   a top-level header; k its lower-cased name; f = "plain"   *)
(*               for exactly "[name]", "var" for another spelling that     *)
(*               strip().lower() maps to "[name]" (e.g. " [NAME] ")        *)
(*   t = "sub"   a sub-block header; f = "block" for exactly "  [[name]]"  *)
(*               (what block_for / cat_block render), "var" for another    *)
(*               spelling that the regexes accept (e.g. "[[ Name ]]")      *)
(*   t = "kv"    "key = value"; k the lower-cased key, v the stripped      *)
(*               value as its list of comma-separated items (<<>> is the   *)
(*               empty value); f = "canon" for exactly "key = value",      *)
(*               "block" for "    key = value" (indented as rendered in a  *)
(*               sub-block), "var" for another spelling ("Key=value")      *)
(*   t = "txt"   any other non-empty line (a comment); k identifies it     *)
(*   t = "blank" the empty line ""                                         *)
(* Two records are equal exactly when the lines are equal strings.         *)
(* A file content is [lines, nl]: the lines that str.splitlines() yields   *)
(* and whether the content ends with a line terminator.                    *)
(***************************************************************************)
EXTENDS Integers, Sequences, FiniteSets, TLC

VARIABLES
    file,      \* content of sabnzbd.ini (SABNZBD_CFG)
    bak,       \* content of sabnzbd.ini.bak, NoFile while it does not exist
    plast,     \* the last patcher call: operation, arguments, what it read, result
    job,       \* a patcher call in steps, next to an external writer of the file
    remote,    \* the collections of the services: Prowlarr's applications,
               \* indexers, tags and proxies, Sonarr's/Radarr's root folders
               \* and host configuration
    rlast,     \* the last reconcile call: operation, arguments, requests, messages
    call,      \* the running call of a retrying wrapper
    clock,     \* time.time(), in seconds
    wait,      \* the running readiness wait
    pass,      \* one run of main(): the step it is at and what it has done
    watch      \* vpn_watch.py: the watcher's gate, its locals and its last iteration

pvars == <<file, bak, plast, job>>
rvars == <<remote, rlast>>
tvars == <<call>>
wvars == <<clock, wait>>
mvars == <<pass>>
gvars == <<watch>>

vars == <<file, bak, plast, job, remote, rlast, call, clock, wait, pass, watch>>

-----------------------------------------------------------------------------
(* Lines *)

Sec(n, f) == [t |-> "sec", k |-> n, v |-> <<>>, f |-> f]
Sub(n, f) == [t |-> "sub", k |-> n, v |-> <<>>, f |-> f]
Kv(key, val, f) == [t |-> "kv", k |-> key, v |-> val, f |-> f]
Txt(id) == [t |-> "txt", k |-> id, v |-> <<>>, f |-> "plain"]
Blank == [t |-> "blank", k |-> "", v |-> <<>>, f |-> "plain"]

\* line.strip().lower() == "[name]"
IsHeader(line, n) == line.t = "sec" /\ line.k = n

\* s.startswith("[") and s.endswith("]") and not s.startswith("[[")
IsTopHeader(line) == line.t = "sec"

\* s.startswith("[[") and s.endswith("]]")
IsSubHeader(line) == line.t = "sub"

\* s.startswith("[") and s.endswith("]")   (ensure_sab_whitelist's test)
IsAnyHeader(line) == line.t \in {"sec", "sub"}

\* re.compile(rf"^\s*{re.escape(key)}\s*=", re.I).match(line)
KeyMatches(line, key) == line.t = "kv" /\ line.k = key

\* re.compile(rf"^\s*\[\[\s*{re.escape(nm)}\s*\]\]\s*$", re.I).match(line)
SubMatches(line, nm) == line.t = "sub" /\ line.k = nm

\* lines[idx].split("=", 1)[1].strip()
CurValue(line) == line.v

-----------------------------------------------------------------------------
(* Sequences *)

Min(S) == CHOOSE x \in S : \A y \in S : x <= y

\* The first index in lo..hi whose line satisfies P, 0 when there is none
\* (Python's None; indices here are 1-based, Python's are 0-based).
FirstIdx(lines, lo, hi, P(_)) ==
    LET S == {i \in lo..hi : i >= 1 /\ i <= Len(lines) /\ P(lines[i])}
    IN  IF S = {} THEN 0 ELSE Min(S)

\* lines.insert(at - 1, line): the new line becomes element `at`
InsertAt(lines, at, new) ==
    SubSeq(lines, 1, at - 1) \o new \o SubSeq(lines, at, Len(lines))

\* lines[s - 1 : e - 1] = new: elements s .. e-1 are replaced
ReplaceSpan(lines, s, e, new) ==
    SubSeq(lines, 1, s - 1) \o new \o SubSeq(lines, e, Len(lines))

SeqsUpTo(S, n) == UNION {[1..m -> S] : m \in 0..n}

SetLine(lines, i, new) == [lines EXCEPT ![i] = new]

\* No item dropped: the list as it is.
KeepDuplicates(xs) == xs

\* list(dict.fromkeys(xs)): duplicates dropped, first occurrences kept in order
RECURSIVE Dedupe(_)
Dedupe(xs) ==
    IF xs = <<>> THEN <<>>
    ELSE LET r == Dedupe(SubSeq(xs, 1, Len(xs) - 1))
             x == xs[Len(xs)]
         IN  IF \E i \in 1..Len(r) : r[i] = x THEN r ELSE Append(r, x)

-----------------------------------------------------------------------------
(* File contents *)

NoFile == [lines |-> <<>>, nl |-> FALSE, exists |-> FALSE]
Text(lines, nl) == [lines |-> lines, nl |-> nl, exists |-> TRUE]

\* text.splitlines()
SplitLines(text) == text.lines

\* text.endswith("\n")
EndsWithNewline(text) == text.nl

\* The content "\n".join(lines) + ("\n" if final else ""), as [lines, nl]:
\* a last element "" contributes no character of its own, so without a final
\* terminator it is not a line of the result.
FromJoin(lines, final) ==
    LET n == Len(lines)
    IN  IF final
        THEN IF n = 0 THEN Text(<<Blank>>, TRUE) ELSE Text(lines, TRUE)
        ELSE IF n = 0 THEN Text(<<>>, FALSE)
             ELSE IF lines[n] = Blank
                  THEN IF n = 1 THEN Text(<<>>, FALSE)
                       ELSE Text(SubSeq(lines, 1, n - 1), TRUE)
                  ELSE Text(lines, FALSE)

\* out = "\n".join(lines) + ("\n" if not text.endswith("\n") else "")
JoinLikeLanguage(lines, text) == FromJoin(lines, ~EndsWithNewline(text))

\* out = "\n".join(lines); if not out.endswith("\n"): out += "\n"
JoinLikeFolders(lines) ==
    LET n == Len(lines)
    IN  IF n > 1 /\ lines[n] = Blank THEN FromJoin(lines, FALSE)
        ELSE FromJoin(lines, TRUE)

-----------------------------------------------------------------------------
(* Program constants the patchers are called with (main) *)

SAB_LANG == <<"en">>
INCOMPLETE_DOWNLOADS == <<"/downloads/incomplete">>
COMPLETED_DOWNLOADS == <<"/downloads">>
SAB_CATS == <<"tv", "movies">>
SAB_WHITELIST == <<"sabnzbd", "localhost">>
SAB_SRV_NAME == "provider"

-----------------------------------------------------------------------------
(* _sab_set_misc_kv and the section search every patcher starts with *)

\* for i, line in enumerate(lines): if line.strip().lower() == "[name]": ... break
SectionStart(lines, n) ==
    FirstIdx(lines, 1, Len(lines), LAMBDA l : IsHeader(l, n))

\* for j in range(i+1, len(lines)): if <top-level header>: next_section = j; break
NextSection(lines, start) ==
    IF start = 0 THEN 0
    ELSE FirstIdx(lines, start + 1, Len(lines), IsTopHeader)

\* end = next_section if next_section is not None else len(lines)   (exclusive)
SectionEnd(lines, next_section) ==
    IF next_section # 0 THEN next_section ELSE Len(lines) + 1

_sab_set_misc_kv(lines, key, value) ==
    LET misc_start == SectionStart(lines, "misc")
        next_section == NextSection(lines, misc_start)
        end == SectionEnd(lines, next_section)
        idx == FirstIdx(lines, misc_start + 1, end - 1,
                        LAMBDA l : KeyMatches(l, key))
    IN  IF misc_start = 0
        THEN [lines |-> lines \o <<Blank, Sec("misc", "plain"), Kv(key, value, "canon")>>,
              changed |-> TRUE]
        ELSE IF idx # 0
             THEN IF CurValue(lines[idx]) # value
                  THEN [lines |-> SetLine(lines, idx, Kv(key, value, "canon")),
                        changed |-> TRUE]
                  ELSE [lines |-> lines, changed |-> FALSE]
             ELSE [lines |-> InsertAt(lines, misc_start + 1, <<Kv(key, value, "canon")>>),
                   changed |-> TRUE]

-----------------------------------------------------------------------------
(* Reading, backing up and writing: the part common to the five patchers.  *)
(* io is what the file system does in this call: "ok", "noread" (read_text *)
(* raises), "nobak" (writing the backup raises), "nowrite" (the backup is  *)
(* written and writing the target raises before it is changed).            *)

IoOutcomes == {"ok", "noread", "nobak", "nowrite"}

\* Outcome with the target written before the backup: when writing the
\* backup raises, the target has been overwritten already.
OutcomeTargetFirst(text, b, out, changed, io) ==
    IF ~changed
    THEN [ret |-> FALSE, file |-> text, bak |-> b, read |-> text, changed |-> FALSE,
          wroteBak |-> FALSE, wroteFile |-> FALSE]
    ELSE IF io = "nowrite"
    THEN [ret |-> FALSE, file |-> text, bak |-> b, read |-> text, changed |-> TRUE,
          wroteBak |-> FALSE, wroteFile |-> FALSE]
    ELSE IF io = "nobak"
    THEN [ret |-> FALSE, file |-> out, bak |-> b, read |-> text, changed |-> TRUE,
          wroteBak |-> FALSE, wroteFile |-> TRUE]
    ELSE [ret |-> TRUE, file |-> out, bak |-> text, read |-> text, changed |-> TRUE,
          wroteBak |-> TRUE, wroteFile |-> TRUE]

\* The outcome of a call that read `text`, computed `out` and `changed`.
Outcome(text, b, out, changed, io) ==
    IF ~changed
    THEN [ret |-> FALSE, file |-> text, bak |-> b, read |-> text, changed |-> FALSE,
          wroteBak |-> FALSE, wroteFile |-> FALSE]
    ELSE IF io = "nobak"
    THEN [ret |-> FALSE, file |-> text, bak |-> b, read |-> text, changed |-> TRUE,
          wroteBak |-> FALSE, wroteFile |-> FALSE]
    ELSE IF io = "nowrite"
    THEN [ret |-> FALSE, file |-> text, bak |-> text, read |-> text, changed |-> TRUE,
          wroteBak |-> TRUE, wroteFile |-> FALSE]
    ELSE [ret |-> TRUE, file |-> out, bak |-> text, read |-> text, changed |-> TRUE,
          wroteBak |-> TRUE, wroteFile |-> TRUE]

\* except Exception: print(...); return False     (p.read_text failed)
NotRead(text, b) ==
    [ret |-> FALSE, file |-> text, bak |-> b, read |-> NoFile, changed |-> FALSE,
     wroteBak |-> FALSE, wroteFile |-> FALSE]

ensure_sab_language(text, b, lang, io) ==
    IF io = "noread" THEN NotRead(text, b)
    ELSE LET r == _sab_set_misc_kv(SplitLines(text), "language", lang)
         IN  Outcome(text, b, JoinLikeLanguage(r.lines, text), r.changed, io)

-----------------------------------------------------------------------------
(* ensure_sab_folders *)

\* set_kv(name, value): the closure over lines, misc_start, next_section and
\* changed.  next_section is the index found before the first call and is not
\* moved when a line is inserted above it.
set_kv(st, name, value) ==
    LET lines == st.lines
        end == SectionEnd(lines, st.next_section)
        idx == FirstIdx(lines, st.misc_start + 1, end - 1,
                        LAMBDA l : KeyMatches(l, name))
    IN  IF st.misc_start = 0
        THEN [st EXCEPT
                !.lines = lines \o <<Blank, Sec("misc", "plain"), Kv(name, value, "canon")>>,
                !.misc_start = Len(lines) + 2,
                !.changed = TRUE]
        ELSE IF idx # 0
             THEN IF CurValue(lines[idx]) # value
                  THEN [st EXCEPT !.lines = SetLine(lines, idx, Kv(name, value, "canon")),
                                  !.changed = TRUE]
                  ELSE st
             ELSE [st EXCEPT
                     !.lines = InsertAt(lines, st.misc_start + 1, <<Kv(name, value, "canon")>>),
                     !.changed = TRUE]

FoldersPatch(lines, temp_dir, complete_dir) ==
    LET misc_start == SectionStart(lines, "misc")
        st0 == [lines |-> lines, misc_start |-> misc_start,
                next_section |-> NextSection(lines, misc_start), changed |-> FALSE]
        st1 == set_kv(st0, "download_dir", temp_dir)
        st2 == set_kv(st1, "complete_dir", complete_dir)
    IN  set_kv(st2, "dir_base", <<>>)

ensure_sab_folders(text, b, temp_dir, complete_dir, io) ==
    IF io = "noread" THEN NotRead(text, b)
    ELSE LET r == FoldersPatch(SplitLines(text), temp_dir, complete_dir)
         IN  Outcome(text, b, JoinLikeFolders(r.lines), r.changed, io)

-----------------------------------------------------------------------------
(* ensure_sab_categories *)

\* cat_block(name)
cat_block(name) ==
    << Sub(name, "block"),
       Kv("priority", <<"-100">>, "block"),
       Kv("pp", <<"3">>, "block"),
       Kv("script", <<>>, "block"),
       Kv("dir", <<name>>, "block"),
       Kv("newzbin", <<>>, "block") >>

RECURSIVE CatBlocks(_)
CatBlocks(cats) ==
    IF cats = <<>> THEN <<>> ELSE cat_block(Head(cats)) \o CatBlocks(Tail(cats))

\* existing: the lower-cased names of the [[name]] lines under [categories]
ExistingCats(lines, cat_start, end) ==
    IF cat_start = 0 THEN {}
    ELSE {lines[j].k : j \in {i \in (cat_start + 1)..(end - 1) : IsSubHeader(lines[i])}}

\* Every wanted category counts as missing.
MissingCatsAll(cats, existing) == cats

\* [c for c in categories if c.lower() not in existing]
MissingCats(cats, existing) == SelectSeq(cats, LAMBDA c : c \notin existing)

CategoriesPatch(lines, categories) ==
    LET cat_start == SectionStart(lines, "categories")
        next_section == NextSection(lines, cat_start)
        end == SectionEnd(lines, next_section)
        missing == MissingCats(categories, ExistingCats(lines, cat_start, end))
    IN  IF cat_start = 0
        THEN [lines |-> lines \o <<Blank, Sec("categories", "plain")>> \o CatBlocks(categories),
              changed |-> TRUE]
        ELSE IF missing # <<>>
             THEN [lines |-> InsertAt(lines, end, CatBlocks(missing)), changed |-> TRUE]
             ELSE [lines |-> lines, changed |-> FALSE]

ensure_sab_categories(text, b, categories, io) ==
    IF io = "noread" THEN NotRead(text, b)
    ELSE LET r == CategoriesPatch(SplitLines(text), categories)
         IN  Outcome(text, b, JoinLikeFolders(r.lines), r.changed, io)

-----------------------------------------------------------------------------
(* ensure_sab_server *)

\* block_for(nm): the server's values are those main passes (SAB_SRV_*)
block_for(nm, host) ==
    << Sub(nm, "block"),
       Kv("host", <<host>>, "block"),
       Kv("port", <<"563">>, "block"),
       Kv("username", <<>>, "block"),
       Kv("password", <<>>, "block"),
       Kv("connections", <<"20">>, "block"),
       Kv("ssl", <<"1">>, "block"),
       Kv("enable", <<"1">>, "block"),
       Kv("priority", <<"0">>, "block"),
       Kv("retention", <<"0">>, "block"),
       Kv("optional", <<"0">>, "block"),
       Kv("send_group", <<"0">>, "block"),
       Kv("fetch_by_msgid", <<"0">>, "block"),
       Kv("server_usenet_only", <<"1">>, "block") >>

\* find_block_indices(start, end, nm): (s_idx, e_idx), e_idx exclusive
find_block_indices(lines, start, end, nm) ==
    LET s_idx == FirstIdx(lines, start + 1, end - 1, LAMBDA l : SubMatches(l, nm))
        k == FirstIdx(lines, s_idx + 1, end - 1, IsSubHeader)
    IN  IF s_idx = 0 THEN <<0, 0>>
        ELSE IF k # 0 THEN <<s_idx, k>> ELSE <<s_idx, end>>

\* ServerPatch without the comparison `if cur != new_block`: an existing block
\* is always written again.
ServerPatchAlwaysReplace(lines, name, host) ==
    LET srv_start == SectionStart(lines, "servers")
        next_section == NextSection(lines, srv_start)
        end == SectionEnd(lines, next_section)
        be == find_block_indices(lines, srv_start, end, name)
        new_block == block_for(name, host)
    IN  IF srv_start = 0
        THEN [lines |-> lines \o <<Blank, Sec("servers", "plain")>> \o new_block,
              changed |-> TRUE]
        ELSE IF be[1] = 0
             THEN [lines |-> InsertAt(lines, end, new_block), changed |-> TRUE]
             ELSE [lines |-> ReplaceSpan(lines, be[1], be[2], new_block),
                   changed |-> TRUE]

\* ServerPatch with a new block appended at the end of the file instead of
\* the end of the section.
ServerPatchAppendAtEof(lines, name, host) ==
    LET srv_start == SectionStart(lines, "servers")
        next_section == NextSection(lines, srv_start)
        end == SectionEnd(lines, next_section)
        be == find_block_indices(lines, srv_start, end, name)
        new_block == block_for(name, host)
    IN  IF srv_start = 0
        THEN [lines |-> lines \o <<Blank, Sec("servers", "plain")>> \o new_block,
              changed |-> TRUE]
        ELSE IF be[1] = 0
             THEN [lines |-> lines \o new_block, changed |-> TRUE]
             ELSE IF SubSeq(lines, be[1], be[2] - 1) # new_block
                  THEN [lines |-> ReplaceSpan(lines, be[1], be[2], new_block),
                        changed |-> TRUE]
                  ELSE [lines |-> lines, changed |-> FALSE]

ServerPatch(lines, name, host) ==
    LET srv_start == SectionStart(lines, "servers")
        next_section == NextSection(lines, srv_start)
        end == SectionEnd(lines, next_section)
        be == find_block_indices(lines, srv_start, end, name)
        new_block == block_for(name, host)
    IN  IF srv_start = 0
        THEN [lines |-> lines \o <<Blank, Sec("servers", "plain")>> \o new_block,
              changed |-> TRUE]
        ELSE IF be[1] = 0
             THEN [lines |-> InsertAt(lines, end, new_block), changed |-> TRUE]
             ELSE IF SubSeq(lines, be[1], be[2] - 1) # new_block
                  THEN [lines |-> ReplaceSpan(lines, be[1], be[2], new_block),
                        changed |-> TRUE]
                  ELSE [lines |-> lines, changed |-> FALSE]

\* host = "" stands for `if not host: return False` before the file is read
ensure_sab_server(text, b, name, host, io) ==
    IF host = "" \/ io = "noread" THEN NotRead(text, b)
    ELSE LET r == ServerPatch(SplitLines(text), name, host)
         IN  Outcome(text, b, JoinLikeLanguage(r.lines, text), r.changed, io)

-----------------------------------------------------------------------------
(* ensure_sab_whitelist *)

\* The scan for [misc] and host_whitelist, line i onwards:
\*   a "[misc]" line sets in_misc and misc_start (again, if it repeats);
\*   inside [misc] any line "[...]" (a "[[...]]" one too) ends the scan;
\*   wl_idx is the last host_whitelist line seen.
RECURSIVE WhitelistScan(_, _, _)
WhitelistScan(lines, i, st) ==
    IF i > Len(lines) THEN st
    ELSE IF IsHeader(lines[i], "misc")
         THEN WhitelistScan(lines, i + 1, [st EXCEPT !.in_misc = TRUE, !.misc_start = i])
         ELSE IF st.in_misc /\ IsAnyHeader(lines[i]) THEN st
         ELSE IF st.in_misc /\ KeyMatches(lines[i], "host_whitelist")
              THEN WhitelistScan(lines, i + 1, [st EXCEPT !.wl_idx = i])
              ELSE WhitelistScan(lines, i + 1, st)

\* join_hosts(hosts): ",".join(dict.fromkeys([h for h in hosts if h]))
join_hosts(hosts) == Dedupe(SelectSeq(hosts, LAMBDA h : h # ""))

\* re.split(r"[, \t]+", current_val), empty items dropped
CurrentHosts(line) == SelectSeq(CurValue(line), LAMBDA h : h # "")

WhitelistPatch(lines, wanted_hosts) ==
    LET st == WhitelistScan(lines, 1, [in_misc |-> FALSE, misc_start |-> 0, wl_idx |-> 0])
        current_hosts == CurrentHosts(lines[st.wl_idx])
        merged == Dedupe(current_hosts \o wanted_hosts)
    IN  IF st.misc_start = 0
        THEN [lines |-> lines \o <<Blank, Sec("misc", "plain"),
                                   Kv("host_whitelist", join_hosts(SAB_WHITELIST), "canon")>>,
              changed |-> TRUE]
        ELSE IF st.wl_idx # 0
             THEN IF merged # current_hosts
                  THEN [lines |-> SetLine(lines, st.wl_idx,
                                          Kv("host_whitelist", join_hosts(merged), "canon")),
                        changed |-> TRUE]
                  ELSE [lines |-> lines, changed |-> FALSE]
             ELSE [lines |-> InsertAt(lines, st.misc_start + 1,
                                      <<Kv("host_whitelist", join_hosts(wanted_hosts), "canon")>>),
                   changed |-> TRUE]

ensure_sab_whitelist(text, b, wanted_hosts, io) ==
    IF io = "noread" THEN NotRead(text, b)
    ELSE LET r == WhitelistPatch(SplitLines(text), wanted_hosts)
         IN  Outcome(text, b, JoinLikeFolders(r.lines), r.changed, io)

-----------------------------------------------------------------------------
(* Names.  An application or indexer name is a sequence of characters; the *)
(* model's alphabet has letters in both cases, "-" (neither alphanumeric   *)
(* nor a word character) and "_" (a word character, not alphanumeric).  An *)
(* application name is a single token such as <<"Sonarr">>.                *)

Lower(c) ==
    CASE c = "E" -> "e" [] c = "Z" -> "z" [] c = "X" -> "x"
      [] c = "T" -> "t" [] c = "R" -> "r" [] c = "U" -> "u" [] OTHER -> c
Upper(c) == CASE c = "e" -> "E" [] c = "z" -> "Z" [] c = "x" -> "X" [] OTHER -> c
IsAlnum(c) == c \notin {"-", "_"}
IsWordChar(c) == c # "-"

MapSeq(f(_), s) == [i \in DOMAIN s |-> f(s[i])]

\* re.sub(r'\W+', '', (s or '').lower())
_norm(s) == SelectSeq(MapSeq(Lower, s), IsWordChar)

\* "".join(ch.lower() for ch in (s or "") if ch.isalnum())
_canon(s) == MapSeq(Lower, SelectSeq(s, IsAlnum))

\* "".join(ch for ch in (s or "") if ch.isalnum()).upper()
_norm_indexer_key(s) == MapSeq(Upper, SelectSeq(s, IsAlnum))

\* `a in b` on strings
Contains(a, b) == \E i \in 0..(Len(b) - Len(a)) : SubSeq(b, i + 1, i + Len(a)) = a

\* x or y, on strings
Or(x, y) == IF x # <<>> THEN x ELSE y

-----------------------------------------------------------------------------
(* The Prowlarr API.  The remote holds three collections, "apps"           *)
(* (/api/v1/applications), "indexers" (/api/v1/indexer) and "tags"         *)
(* (/api/v1/tag), the proxies under their two endpoints "indexerproxy"     *)
(* (/api/v1/indexerproxy) and "proxy" (/api/v1/proxy), and of a Sonarr or  *)
(* Radarr "rootfolder" (/api/v3/rootfolder, the name of a root folder      *)
(* being its path) and "host" (/api/v3/config/host, one entity of id 1     *)
(* whose name is the authenticationMethod).  Every entity is a record [id, name, implementation,     *)
(* tags, useProxy, proxy, fields]; a tag's label is its name; id 0 and     *)
(* proxy 0 stand for an absent value (None).  A field is [name, value].    *)
(* syncLevel is "" until set_app_synclevel_and_sync sets it.  priority (0: *)
(* none) and protocol ("": none) are those of an indexer; updates are the  *)
(* update-related keys a host configuration holds, as fields.              *)

Ent(id, name, impl, tags, useProxy, proxy, fields) ==
    [id |-> id, name |-> name, implementation |-> impl, tags |-> tags,
     useProxy |-> useProxy, proxy |-> proxy, fields |-> fields, syncLevel |-> "",
     priority |-> 0, protocol |-> "", updates |-> <<>>]

Field(n, v) == [name |-> n, value |-> v]

Tag(id, label) == Ent(id, label, <<>>, <<>>, FALSE, 0, <<>>)

Max(S) == CHOOSE x \in S : \A y \in S : x >= y

NewId(coll) == IF coll = <<>> THEN 1 ELSE Max({coll[i].id : i \in DOMAIN coll}) + 1

NameTaken(coll, name) == \E i \in DOMAIN coll : coll[i].name = name

\* What the environment does to one call of requests.get / requests.post or
\* of a retrying wrapper:
\*   "ok"      the remote answers the first attempt
\*   "retry1"  the first attempt ends in ConnectionError or ReadTimeout
\*             without reaching the remote, the next attempt is answered
\*   "down"    every attempt ends in ConnectionError or ReadTimeout
\*   "reject"  the remote answers 500 and changes nothing
\*   "raced"   another writer creates an entity of the same name just
\*             before a POST is served
Faults == {"ok", "retry1", "down", "reject", "raced"}

\* The remote serving a request on collection coll: status, id and the
\* collection afterwards.  A POST of a name already present is answered
\* 400 "Should be unique"; a POST of a tag label already present is answered
\* with the existing tag.
Serve(coll, m, c, id, body) ==
    CASE m = "GET" -> [status |-> 200, id |-> 0, coll |-> coll]
      [] m = "POST" ->
            IF NameTaken(coll, body.name)
            THEN IF c = "tags"
                 THEN [status |-> 201,
                       id |-> coll[FirstIdx(coll, 1, Len(coll), LAMBDA t : t.name = body.name)].id,
                       coll |-> coll]
                 ELSE [status |-> 400, id |-> 0, coll |-> coll]
            ELSE [status |-> 201, id |-> NewId(coll),
                  coll |-> Append(coll, [body EXCEPT !.id = NewId(coll)])]
      [] m = "PUT" ->
            LET i == FirstIdx(coll, 1, Len(coll), LAMBDA x : x.id = id)
            IN  IF i = 0 THEN [status |-> 404, id |-> 0, coll |-> coll]
                ELSE [status |-> 202, id |-> id, coll |-> [coll EXCEPT ![i] = body]]

\* The entity another writer creates under the name of body
Racer(coll, body) ==
    [body EXCEPT !.id = NewId(coll), !.tags = <<>>, !.fields = <<>>]

\* A world is [remote, script, reqs, log]: the remote, the faults still to
\* come (none left: "ok"), the requests sent so far and the messages printed.
\* Exec sends one request through a wrapper of `tries` attempts (1 for a bare
\* requests call) and yields the world afterwards, whether the call raised,
\* and the status and id of the response.
\* Whether attempt i (0-based) of a call under fault e ends in ConnectionError
\* or ReadTimeout
AttemptFails(e, i) == e = "down" \/ (e = "retry1" /\ i = 0)

\* for i in range(tries): try: return requests.<m>(...)
\*                        except (ConnectionError, ReadTimeout): if i == tries - 1: raise
RECURSIVE RetryLoop(_, _, _)
RetryLoop(e, tries, i) ==
    IF i >= tries THEN [out |-> "none", attempts |-> i]
    ELSE IF AttemptFails(e, i)
         THEN IF i = tries - 1 THEN [out |-> "raise", attempts |-> i + 1]
              ELSE RetryLoop(e, tries, i + 1)
         ELSE [out |-> "response", attempts |-> i + 1]

\* K applied to the value of x, x being evaluated once
Then(x, K(_)) == CHOOSE out \in {K(v) : v \in {x}} : TRUE

Exec(w0, m, c, id, body0, tries) ==
    Then(<<w0, body0>>, LAMBDA wb :
    Then(IF wb[1].script = <<>> THEN "ok" ELSE Head(wb[1].script), LAMBDA e :
    Then(RetryLoop(e, tries, 0), LAMBDA loop :
    Then(IF e = "raced" /\ m = "POST" /\ ~NameTaken(wb[1].remote[c], wb[2].name)
         THEN Append(wb[1].remote[c], Racer(wb[1].remote[c], wb[2]))
         ELSE wb[1].remote[c], LAMBDA coll1 :
    Then(IF loop.out # "response" THEN [status |-> 0, id |-> 0, coll |-> wb[1].remote[c]]
         ELSE IF e = "reject" THEN [status |-> 500, id |-> 0, coll |-> wb[1].remote[c]]
         ELSE Serve(coll1, m, c, id, wb[2]), LAMBDA ans :
    [w |-> [remote |-> [wb[1].remote EXCEPT ![c] = ans.coll],
            script |-> IF wb[1].script = <<>> THEN <<>> ELSE Tail(wb[1].script),
            reqs |-> Append(wb[1].reqs,
                            [m |-> m, c |-> c, id |-> id, body |-> wb[2],
                             attempts |-> loop.attempts, status |-> ans.status]),
            log |-> wb[1].log],
     exc |-> loop.out # "response", status |-> ans.status, id |-> ans.id])))))

Say(w, msg) == [w EXCEPT !.log = Append(@, msg)]

NoBody == Ent(0, <<>>, <<>>, <<>>, FALSE, 0, <<>>)

\* requests.get(...); r.raise_for_status(); return r.json()
\* ok = FALSE when the call raised (transport error or HTTP error status)
GetList(w0, c) ==
    Then(w0, LAMBDA w :
    Then(Exec(w, "GET", c, 0, NoBody, 1), LAMBDA r :
    [w |-> r.w, ok |-> ~r.exc /\ r.status < 400, list |-> w.remote[c]]))

prow_get_apps(w) == GetList(w, "apps")
prow_get_indexers(w) == GetList(w, "indexers")
list_tags(w) == GetList(w, "tags")

PUT_TRIES == 5
POST_TRIES == 4

http_put_with_retries(w, c, id, obj, tries) == Exec(w, "PUT", c, id, obj, tries)
post_with_retries(w, c, payload, tries) == Exec(w, "POST", c, 0, payload, tries)

-----------------------------------------------------------------------------
(* add_app *)

PROWLARR_URL_IN_DOCKER == "http://prowlarr:9696"
SONARR_URL_IN_DOCKER == "http://sonarr:8989"
RADARR_URL_IN_DOCKER == "http://radarr:7878"

\* set_field(n, v): the first field named n gets value v; appended when absent
set_field(fields, n, v) ==
    LET i == FirstIdx(fields, 1, Len(fields), LAMBDA f : f.name = n)
    IN  IF i = 0 THEN Append(fields, Field(n, v))
        ELSE [fields EXCEPT ![i].value = v]

ensure_fields(fields, base_url_in_docker, app_api_key) ==
    set_field(set_field(set_field(fields, "apiKey", app_api_key),
                        "baseUrl", base_url_in_docker),
              "ProwlarrUrl", PROWLARR_URL_IN_DOCKER)

\* The update branch of add_app: one PUT of the existing entity with the
\* three fields set; app_id is returned whatever the PUT does.
AddAppUpdate(w, app_name, base_url_in_docker, app_api_key, existing) ==
    Then([existing EXCEPT !.fields = ensure_fields(@, base_url_in_docker, app_api_key)],
         LAMBDA obj :
    Then(http_put_with_retries(Say(w, "exists_updating"), "apps", existing.id, obj, PUT_TRIES),
         LAMBDA r :
    [w |-> Say(r.w, IF r.exc THEN "update_error"
                    ELSE IF r.status \in {200, 202} THEN "updated"
                    ELSE "update_failed"),
     ret |-> existing.id]))

\* (The variant of AddAppConflict that lists again and gives up all the same.)
AddAppConflictGivesUp(w, app_name) ==
    Then(prow_get_apps(Say(w, "unique")), LAMBDA l :
    [w |-> Say(l.w, "create_failed"), ret |-> 0])

\* After 400 "Should be unique": the applications are listed again and the id
\* of the one of this name is returned; a failed listing raises into the
\* handler of the create branch.
AddAppConflict(w, app_name) ==
    Then(prow_get_apps(Say(w, "unique")), LAMBDA l :
    Then(FirstIdx(l.list, 1, Len(l.list), LAMBDA a : a.name = app_name), LAMBDA i :
    IF ~l.ok THEN [w |-> Say(l.w, "create_error"), ret |-> 0]
    ELSE [w |-> l.w, ret |-> IF i = 0 THEN 0 ELSE l.list[i].id]))

\* (The variant of AddAppCreate that sends its POST a second time.)
AddAppCreateTwice(w, app_name, base_url_in_docker, app_api_key) ==
    Then(Ent(0, app_name, app_name, <<>>, FALSE, 0,
             ensure_fields(<<>>, base_url_in_docker, app_api_key)), LAMBDA payload :
    Then(post_with_retries(Say(w, "adding"), "apps", payload, 3), LAMBDA r :
    Then(post_with_retries(r.w, "apps", payload, 3), LAMBDA r2 :
    IF r.status \in {200, 201} THEN [w |-> Say(r2.w, "created"), ret |-> r.id]
    ELSE [w |-> Say(r2.w, "create_failed"), ret |-> 0])))

\* The create branch of add_app: one POST through post_with_retries(tries=3)
AddAppCreate(w, app_name, base_url_in_docker, app_api_key) ==
    Then(Ent(0, app_name, app_name, <<>>, FALSE, 0,
             ensure_fields(<<>>, base_url_in_docker, app_api_key)), LAMBDA payload :
    Then(post_with_retries(Say(w, "adding"), "apps", payload, 3), LAMBDA r :
    IF r.exc THEN [w |-> Say(r.w, "create_error"), ret |-> 0]
    ELSE IF r.status \in {200, 201} THEN [w |-> Say(r.w, "created"), ret |-> r.id]
    ELSE IF r.status = 400 THEN AddAppConflict(r.w, app_name)
    ELSE [w |-> Say(r.w, "create_failed"), ret |-> 0]))

\* add_app(app_name, base_url_in_docker, app_api_key, prowlarr_api_key);
\* ret 0 is None
add_app(w0, app_name, base_url_in_docker, app_api_key) ==
    Then(prow_get_apps(w0), LAMBDA l :
    Then(IF l.ok THEN l.w ELSE Say(l.w, "list_failed"), LAMBDA w1 :
    Then(IF l.ok THEN l.list ELSE <<>>, LAMBDA apps :
    Then(FirstIdx(apps, 1, Len(apps),
                  LAMBDA a : a.name = app_name \/ a.implementation = app_name), LAMBDA i :
    IF i # 0 THEN AddAppUpdate(w1, app_name, base_url_in_docker, app_api_key, apps[i])
    ELSE AddAppCreate(w1, app_name, base_url_in_docker, app_api_key)))))

\* app = next(a for a in apps if a.get("implementation") == app_name), else
\* the first whose name is app_name; 0 when there is none
SyncLevelApp(apps, app_name) ==
    LET i == FirstIdx(apps, 1, Len(apps), LAMBDA a : a.implementation = app_name)
        j == FirstIdx(apps, 1, Len(apps), LAMBDA a : a.name = app_name)
    IN  IF i # 0 THEN i ELSE j

\* Every field whose lower-cased name is "prowlarrurl" gets the in-docker
\* URL; when there is none, the field ProwlarrUrl is appended
SyncLevelFields(fields) ==
    IF \E k \in DOMAIN fields : fields[k].name \in {"ProwlarrUrl", "prowlarrUrl", "prowlarrurl"}
    THEN [k \in DOMAIN fields |->
            IF fields[k].name \in {"ProwlarrUrl", "prowlarrUrl", "prowlarrurl"}
            THEN Field(fields[k].name, PROWLARR_URL_IN_DOCKER) ELSE fields[k]]
    ELSE Append(fields, Field("ProwlarrUrl", PROWLARR_URL_IN_DOCKER))

\* for full_sync in ("FullSync", 2): PUT the application with that syncLevel;
\* the loop ends at the first PUT answered 200 or 202
RECURSIVE SyncLevelPuts(_, _, _)
SyncLevelPuts(w, obj, levels) ==
    IF levels = <<>> THEN w
    ELSE Then(http_put_with_retries(w, "apps", obj.id,
                                    [obj EXCEPT !.syncLevel = Head(levels)], PUT_TRIES),
              LAMBDA u :
         IF ~u.exc /\ u.status \in {200, 202} THEN Say(u.w, "sync_set")
         ELSE SyncLevelPuts(Say(u.w, IF u.exc THEN "sync_error" ELSE "sync_failed"),
                            obj, Tail(levels)))

\* set_app_synclevel_and_sync(app_name, api_key): the world after the call
set_app_synclevel_and_sync(w0, app_name) ==
    Then(prow_get_apps(w0), LAMBDA l :
    Then(SyncLevelApp(l.list, app_name), LAMBDA i :
    IF ~l.ok THEN Say(l.w, "list_failed")
    ELSE IF i = 0 THEN Say(l.w, "not_found")
    ELSE SyncLevelPuts(l.w, [l.list[i] EXCEPT !.fields = SyncLevelFields(@)],
                       <<"FullSync", "2">>)))

-----------------------------------------------------------------------------
(* Tags, indexer definitions and create_indexer_with_optional_proxy.  An   *)
(* indexer definition (an element of /api/v1/indexer/schema) is a record   *)
(* [name, implementationName, implementation, protocol, fields]; a schema  *)
(* field is [name, has, value, defaultValue], has = ("value" in f).        *)

CF_TAG_LABEL == <<"cf">>
USENET_DEFAULT_APIKEY == "nzb-key"
USENET_DEFAULT_BASEURL == ""

\* The second half of ensure_tag_id: POST /tag
CreateTag(w, label) ==
    Then(Exec(w, "POST", "tags", 0, Tag(0, label), 1), LAMBDA r :
    IF r.exc THEN [w |-> Say(r.w, "tag_error"), id |-> 0]
    ELSE IF r.status \in {200, 201} THEN [w |-> Say(r.w, "tag_created"), id |-> r.id]
    ELSE [w |-> Say(r.w, "tag_failed"), id |-> 0])

\* ret id 0 is None
ensure_tag_id(w0, label) ==
    Then(list_tags(w0), LAMBDA l :
    Then(FirstIdx(l.list, 1, Len(l.list), LAMBDA t : t.name = label), LAMBDA i :
    IF l.ok /\ i # 0 THEN [w |-> l.w, id |-> l.list[i].id]
    ELSE IF l.ok THEN CreateTag(l.w, label)
    ELSE CreateTag(Say(l.w, "tag_list_failed"), label)))

Def(name, implName, impl, protocol, fields) ==
    [name |-> name, implementationName |-> implName, implementation |-> impl,
     protocol |-> protocol, fields |-> fields]

SchemaField(n, has, v, d) == [name |-> n, has |-> has, value |-> v, defaultValue |-> d]

\* s.lower(), on the protocol and implementation words of the model
LowerWord(s) ==
    CASE s = "Usenet" -> "usenet" [] s = "Newznab" -> "newznab"
      [] s = "Cardigann" -> "cardigann"
      [] s \in {"ProwlarrUrl", "prowlarrUrl"} -> "prowlarrurl" [] OTHER -> s

_is_usenet(defn) ==
    LowerWord(defn.protocol) = "usenet" \/ LowerWord(defn.implementation) = "newznab"

\* field_name.upper()
UpperWord(s) ==
    CASE s = "apiKey" -> "APIKEY" [] s = "baseUrl" -> "BASEURL" [] OTHER -> s

\* The environment variables IDX_<key>__<FIELD> that are set
IdxEnv == { [key |-> <<"E", "Z">>, field |-> "BASEURL", val |-> "http://ez"],
            [key |-> <<"E", "Z">>, field |-> "COOKIE", val |-> ""] }

\* "" is None
_get_override(name_norm, field_name) ==
    LET hits == {e \in IdxEnv : e.key = name_norm /\ e.field = UpperWord(field_name)}
    IN  IF hits = {} THEN "" ELSE (CHOOSE e \in hits : TRUE).val

InSchema(defn, fname) == \E i \in DOMAIN defn.fields : defn.fields[i].name = fname

\* overrides[fname], "" when fname is not a key
_collect_overrides_for(defn) ==
    LET key == _norm_indexer_key(Or(defn.name, defn.implementationName))
        names == {defn.fields[i].name : i \in DOMAIN defn.fields} \ {""}
        fromEnv == [n \in names |-> _get_override(key, n)]
        UsenetDefault(n) ==
            CASE n = "apiKey" -> USENET_DEFAULT_APIKEY
              [] n = "baseUrl" -> USENET_DEFAULT_BASEURL
              [] OTHER -> ""
    IN  [n \in names |->
            IF fromEnv[n] # "" THEN fromEnv[n]
            ELSE IF _is_usenet(defn) THEN UsenetDefault(n) ELSE ""]

\* f.get("value") or f.get("defaultValue")
SchemaValueOr(f) == IF f.value # "" THEN f.value ELSE f.defaultValue

\* f.get("value") if "value" in f else f.get("defaultValue")
SchemaValue(f) == IF f.has THEN f.value ELSE f.defaultValue

\* for f in defn.get("fields", []): a field without name is skipped; an
\* override counts when fname is a key of overrides and its value is
\* neither None nor ""
_build_fields_with_overrides(defn, overrides) ==
    LET named == SelectSeq(defn.fields, LAMBDA f : f.name # "")
    IN  [i \in DOMAIN named |->
            Field(named[i].name,
                  IF named[i].name \in DOMAIN overrides /\ overrides[named[i].name] # ""
                  THEN overrides[named[i].name]
                  ELSE SchemaValue(named[i]))]

\* by_name maps a name to the last index carrying it, 0 when there is none
LastIdx(fields, n) ==
    LET S == {i \in DOMAIN fields : fields[i].name = n}
    IN  IF S = {} THEN 0 ELSE Max(S)

\* by_name is computed once from `existing`; a new name is appended
RECURSIVE MergeFrom(_, _, _)
MergeFrom(existing, out, new_fields) ==
    IF new_fields = <<>> THEN out
    ELSE LET nf == Head(new_fields)
             i == LastIdx(existing, nf.name)
         IN  MergeFrom(existing,
                       IF i # 0 THEN [out EXCEPT ![i].value = nf.value]
                       ELSE Append(out, Field(nf.name, nf.value)),
                       Tail(new_fields))

_merge_fields(existing, new_fields) == MergeFrom(existing, existing, new_fields)

_create_indexer_payload_from_def(defn, tag_id, proxy_id, use_proxy) ==
    LET use_proxy_flag == use_proxy /\ ~_is_usenet(defn)
    IN  Ent(0, Or(defn.name, defn.implementationName),
            Or(defn.implementationName, defn.name),
            IF tag_id # 0 THEN <<tag_id>> ELSE <<>>,
            use_proxy_flag,
            IF proxy_id # 0 /\ use_proxy_flag THEN proxy_id ELSE 0,
            _build_fields_with_overrides(defn, _collect_overrides_for(defn)))

\* The definition create_indexer_with_optional_proxy picks: the first whose
\* canonical name or implementationName equals the wanted one, else the first
\* that contains it; 0 when there is none.
\* (FindDefFirstContaining is the variant without the pass for equal names.)
FindDefFirstContaining(defs, name) ==
    FirstIdx(defs, 1, Len(defs),
             LAMBDA d : Contains(_canon(name), _canon(d.name))
                        \/ Contains(_canon(name), _canon(d.implementationName)))

FindDef(defs, name) ==
    LET wanted == _canon(name)
        i == FirstIdx(defs, 1, Len(defs),
                      LAMBDA d : _canon(d.name) = wanted
                                 \/ _canon(d.implementationName) = wanted)
        j == FirstIdx(defs, 1, Len(defs),
                      LAMBDA d : Contains(wanted, _canon(d.name))
                                 \/ Contains(wanted, _canon(d.implementationName)))
    IN  IF i # 0 THEN i ELSE j

\* The update branch: one PUT of `current` with tags, proxy and fields set
IndexerUpdate(w, current, tag_id, proxy_id, use_proxy_flag, new_fields) ==
    Then([current EXCEPT
             !.tags = IF tag_id # 0 THEN <<tag_id>> ELSE @,
             !.useProxy = use_proxy_flag,
             !.proxy = IF use_proxy_flag THEN proxy_id ELSE @,
             !.fields = _merge_fields(@, new_fields)], LAMBDA obj :
    Then(http_put_with_retries(w, "indexers", current.id, obj, PUT_TRIES), LAMBDA u :
    Say(u.w, IF u.exc THEN "update_error"
             ELSE IF u.status \in {200, 202} THEN "updated"
             ELSE "update_failed")))

\* create_indexer_with_optional_proxy(defs, name, proxy_id, api_key): the
\* world after the call (the function returns None on every path)
RECURSIVE create_indexer_with_optional_proxy(_, _, _, _)

\* After 400 "Should be unique": the indexers are listed again and, when one
\* of the intended name is there, the function calls itself.
IndexerConflict(w, defs, intended_name, proxy_id) ==
    Then(prow_get_indexers(Say(w, "unique")), LAMBDA ex :
    Then(FirstIdx(ex.list, 1, Len(ex.list),
                  LAMBDA i : _norm(i.name) = _norm(intended_name)), LAMBDA cur :
    IF ex.ok /\ cur # 0
    THEN create_indexer_with_optional_proxy(ex.w, defs, intended_name, proxy_id)
    ELSE ex.w))

\* The create branch: one POST through post_with_retries(tries=3)
IndexerCreate(w, defs, match, intended_name, tag_id, proxy_id) ==
    Then(_create_indexer_payload_from_def(match, tag_id, proxy_id, ~_is_usenet(match)),
         LAMBDA payload :
    Then(post_with_retries(w, "indexers", payload, 3), LAMBDA r :
    IF r.exc THEN Say(r.w, "create_error")
    ELSE IF r.status \in {200, 201} THEN Say(r.w, "created")
    ELSE IF r.status = 400 THEN IndexerConflict(r.w, defs, intended_name, proxy_id)
    ELSE Say(r.w, "create_failed")))

create_indexer_with_optional_proxy(w0, defs, name, proxy_id) ==
    Then(FindDef(defs, name), LAMBDA m :
    IF m = 0 THEN Say(w0, "no_definition")
    ELSE
    Then(prow_get_indexers(w0), LAMBDA l :
    Then(IF l.ok THEN l.list ELSE <<>>, LAMBDA existing :
    Then(Or(Or(defs[m].name, defs[m].implementationName), name), LAMBDA intended_name :
    Then(FirstIdx(existing, 1, Len(existing),
                  LAMBDA i : _norm(i.name) = _norm(intended_name)), LAMBDA c :
    Then(ensure_tag_id(IF l.ok THEN l.w ELSE Say(l.w, "list_failed"), CF_TAG_LABEL), LAMBDA t :
    Then(_build_fields_with_overrides(defs[m], _collect_overrides_for(defs[m])),
         LAMBDA new_fields :
    IF c # 0
    THEN IndexerUpdate(t.w, existing[c], t.id, proxy_id,
                       ~_is_usenet(defs[m]) /\ proxy_id # 0, new_fields)
    ELSE IndexerCreate(t.w, defs, defs[m], intended_name, t.id, proxy_id))))))))

-----------------------------------------------------------------------------
(* ensure_root_folder, set_arr_auth and create_proxy_if_needed.  A path is *)
(* its sequence of characters, a run of letters written as one element.   *)
(* A call yields [w, ret]: ret 1 is True, 0 is False or None, -1 stands    *)
(* for an exception that leaves the function.                              *)

CONTAINER_MOVIES_DIR == <<"/", "movies">>
CONTAINER_SHOWS_DIR == <<"/", "shows">>

\* s.rstrip("/")
RECURSIVE RStripSlash(_)
RStripSlash(s) ==
    IF s # <<>> /\ s[Len(s)] = "/" THEN RStripSlash(SubSeq(s, 1, Len(s) - 1)) ELSE s

\* payload_variants: {"path": path}, {"path": path, "name": path},
\* {"path": path, "defaultTags": []}
payload_variants(path) ==
    << Ent(0, path, <<>>, <<>>, FALSE, 0, <<>>),
       Ent(0, path, <<>>, <<>>, FALSE, 0, <<Field("name", "path")>>),
       Ent(0, path, <<>>, <<>>, FALSE, 0, <<Field("defaultTags", "")>>) >>

\* for payload in payload_variants: one requests.post each; 200 or 201 ends
\* the loop with True, 400 ends it with False, any other status and any
\* exception go on to the next variant
RECURSIVE RootFolderPosts(_, _)
RootFolderPosts(w, variants) ==
    IF variants = <<>> THEN [w |-> w, ret |-> 0]
    ELSE Then(Exec(w, "POST", "rootfolder", 0, Head(variants), 1), LAMBDA r :
         IF r.exc THEN RootFolderPosts(Say(r.w, "create_error"), Tail(variants))
         ELSE IF r.status \in {200, 201} THEN [w |-> Say(r.w, "created"), ret |-> 1]
         ELSE IF r.status = 400 THEN [w |-> Say(r.w, "create_400"), ret |-> 0]
         ELSE RootFolderPosts(Say(r.w, "create_failed"), Tail(variants)))

\* ensure_root_folder(app_url, api_key, path).  The listing is
\* requests.get(...).json() without raise_for_status: of an error answer,
\* json() raises (the body is no JSON: caught, False) or yields the error
\* object (error_json), on whose keys rf.get then raises AttributeError.
ensure_root_folder(w0, path, error_json) ==
    Then(w0.remote.rootfolder, LAMBDA existing :
    Then(Exec(w0, "GET", "rootfolder", 0, NoBody, 1), LAMBDA l :
    IF l.exc THEN [w |-> Say(l.w, "list_failed"), ret |-> 0]
    ELSE IF l.status >= 400
    THEN IF error_json THEN [w |-> Say(l.w, "raised"), ret |-> -1]
         ELSE [w |-> Say(l.w, "list_failed"), ret |-> 0]
    ELSE IF \E k \in DOMAIN existing : RStripSlash(existing[k].name) = RStripSlash(path)
    THEN [w |-> Say(l.w, "present"), ret |-> 0]
    ELSE RootFolderPosts(l.w, payload_variants(path))))

AUTH_METHOD == "forms"
UI_USER == "user"
UI_PASS == "password"

\* apply_settings(cfg_obj, auth_method)
apply_settings(cfg_obj, auth_method, username, password) ==
    [cfg_obj EXCEPT !.name = auth_method,
                    !.fields = << Field("authenticationRequired", "Enabled"),
                                  Field("username", username),
                                  Field("password", password),
                                  Field("passwordConfirmation", password) >>]

\* for attempt_method in (method, "basic" if method != "basic" else None):
\* one requests.put each; 200 or 202 ends the loop with True, any other
\* status and any exception go on to the next method
RECURSIVE HostPuts(_, _, _, _, _)
HostPuts(w, cfg, methods, username, password) ==
    IF methods = <<>> THEN [w |-> w, ret |-> 0]
    ELSE Then(Exec(w, "PUT", "host", cfg.id,
                   apply_settings(cfg, Head(methods), username, password), 1), LAMBDA u :
         IF u.exc THEN HostPuts(Say(u.w, "put_error"), cfg, Tail(methods), username, password)
         ELSE IF u.status \in {200, 202} THEN [w |-> Say(u.w, "auth_set"), ret |-> 1]
         ELSE HostPuts(Say(u.w, "put_failed"), cfg, Tail(methods), username, password))

\* set_arr_auth(base_url, api_key, api_ver, username, password, method)
set_arr_auth(w0, username, password, method) ==
    IF username = "" \/ password = "" THEN [w |-> Say(w0, "skipped"), ret |-> 0]
    ELSE Then(w0.remote.host, LAMBDA host :
         Then(Exec(w0, "GET", "host", 0, NoBody, 1), LAMBDA g :
         IF g.exc \/ g.status >= 400 \/ host = <<>>
         THEN [w |-> Say(g.w, "get_failed"), ret |-> 0]
         ELSE HostPuts(g.w, host[1],
                       IF method # "basic" THEN <<method, "basic">> ELSE <<method>>,
                       username, password)))

-----------------------------------------------------------------------------
(* set_arr_updates_to_docker and set_prowlarr_indexer_priorities *)

\* The value set_arr_updates_to_docker gives an update-related key
DockerValue(k) ==
    CASE k = "updateMechanism" -> "docker"
      [] k = "branch" -> "stable"
      [] k \in {"updateAutomatically", "automatic"} -> "false"
      [] OTHER -> ""

\* desired = dict(cfg) with each of the four keys, if present, set
DesiredUpdates(cfg) ==
    [cfg EXCEPT !.updates = [i \in DOMAIN @ |-> Field(@[i].name, DockerValue(@[i].name))]]

\* set_arr_updates_to_docker(app_url, api_key): neither request is in a try;
\* a transport error, a GET not answered 200, a configuration without id
\* and a PUT not answered 200 or 202 raise (ret -1)
set_arr_updates_to_docker(w0) ==
    Then(w0.remote.host, LAMBDA host :
    Then(Exec(w0, "GET", "host", 0, NoBody, 1), LAMBDA r :
    IF r.exc \/ r.status # 200 \/ host = <<>> THEN [w |-> Say(r.w, "raised"), ret |-> -1]
    ELSE IF host[1].id = 0 THEN [w |-> Say(r.w, "raised"), ret |-> -1]
    ELSE IF DesiredUpdates(host[1]) = host[1] THEN [w |-> Say(r.w, "already_set"), ret |-> 0]
    ELSE Then(Exec(r.w, "PUT", "host", host[1].id, DesiredUpdates(host[1]), 1), LAMBDA u :
         IF u.exc \/ u.status \notin {200, 202} THEN [w |-> Say(u.w, "raised"), ret |-> -1]
         ELSE [w |-> Say(u.w, "set"), ret |-> 0])))

USENET_PRIO == 10
TORRENT_PRIO == 30

\* The torrent priority, whatever the protocol.
TargetPriorityFlat(idx, usenet_prio, torrent_prio) == torrent_prio

\* target = usenet_prio if proto == "usenet" else torrent_prio
TargetPriority(idx, usenet_prio, torrent_prio) ==
    IF LowerWord(idx.protocol) = "usenet" THEN usenet_prio ELSE torrent_prio

\* for idx in idxs: a PUT of the indexer with the target priority when its
\* priority differs; the PUT is in a try, changed counts the 200 and 202
RECURSIVE PriorityPuts(_, _, _, _, _)
PriorityPuts(w, idxs, usenet_prio, torrent_prio, changed) ==
    IF idxs = <<>>
    THEN [w |-> IF changed = 0 THEN Say(w, "already_correct") ELSE w, ret |-> 0]
    ELSE Then(TargetPriority(Head(idxs), usenet_prio, torrent_prio), LAMBDA target :
         IF Head(idxs).priority = target
         THEN PriorityPuts(w, Tail(idxs), usenet_prio, torrent_prio, changed)
         ELSE Then(Exec(w, "PUT", "indexers", Head(idxs).id,
                        [Head(idxs) EXCEPT !.priority = target], 1), LAMBDA r :
              IF r.exc
              THEN PriorityPuts(Say(r.w, "put_error"), Tail(idxs), usenet_prio, torrent_prio,
                                changed)
              ELSE IF r.status \in {200, 202}
              THEN PriorityPuts(Say(r.w, "priority_set"), Tail(idxs), usenet_prio,
                                torrent_prio, changed + 1)
              ELSE PriorityPuts(Say(r.w, "put_failed"), Tail(idxs), usenet_prio, torrent_prio,
                                changed)))

\* set_prowlarr_indexer_priorities(usenet_prio, torrent_prio, api_key).  The
\* listing is requests.get(...).json() without raise_for_status: of an error
\* answer, json() raises (caught, return) or yields the error object
\* (error_json), on whose keys idx.get then raises AttributeError.
set_prowlarr_indexer_priorities(w0, usenet_prio, torrent_prio, error_json) ==
    Then(w0.remote.indexers, LAMBDA idxs :
    Then(Exec(w0, "GET", "indexers", 0, NoBody, 1), LAMBDA l :
    IF l.exc THEN [w |-> Say(l.w, "list_failed"), ret |-> 0]
    ELSE IF l.status >= 400
    THEN IF error_json THEN [w |-> Say(l.w, "raised"), ret |-> -1]
         ELSE [w |-> Say(l.w, "list_failed"), ret |-> 0]
    ELSE PriorityPuts(l.w, idxs, usenet_prio, torrent_prio, 0)))

-----------------------------------------------------------------------------
(* set_download_client_priorities.  The clients are the collection         *)
(* "downloadclient" (/api/v3/downloadclient) of a Sonarr or Radarr; a      *)
(* priority 0 stands for a client without "priority".  desired is kept by  *)
(* position in the list, 0 for a client not assigned yet.                  *)

\* sab[0], qb[0]: the position of the first client of the implementation, 0
\* when there is none
FirstClient(clients, impl) ==
    FirstIdx(clients, 1, Len(clients), LAMBDA c : c.implementation = impl)

\* desired after the if sab_first and sab: ... else: ...
DesiredPreferred(clients, sab_first) ==
    LET sab == FirstClient(clients, "SABnzbd")
        qb == FirstClient(clients, "QBittorrent")
    IN  IF sab_first /\ sab # 0
        THEN [k \in DOMAIN clients |-> IF k = sab THEN 1 ELSE IF k = qb THEN 2 ELSE 0]
        ELSE [k \in DOMAIN clients |-> IF k = qb THEN 1 ELSE IF k = sab THEN 2 ELSE 0]

\* Only a priority in use is given up.
BumpedIfTaken(pr, used) == pr \in used

\* pr in used or pr < 3
Bumped(pr, used) == pr \in used \/ pr < 3

\* for c in clients: the clients not in desired keep int(c.get("priority", 3))
\* or take next_free
RECURSIVE DesiredOthers(_, _, _, _, _)
DesiredOthers(clients, desired, used, next_free, k) ==
    IF k > Len(clients) THEN desired
    ELSE IF desired[k] # 0 THEN DesiredOthers(clients, desired, used, next_free, k + 1)
    ELSE LET own == IF clients[k].priority = 0 THEN 3 ELSE clients[k].priority
             pr == IF Bumped(own, used) THEN next_free ELSE own
         IN  DesiredOthers(clients, [desired EXCEPT ![k] = pr], used \cup {pr},
                           IF Bumped(own, used) THEN next_free + 1 ELSE next_free, k + 1)

\* for c in clients: a PUT of the client with its new priority when
\* int(c.get("priority", 0)) differs from it; the PUT is in a try
RECURSIVE ClientPuts(_, _, _, _, _)
ClientPuts(w, clients, desired, k, changed) ==
    IF k > Len(clients)
    THEN [w |-> Say(w, IF changed THEN "updated" ELSE "already_correct"), ret |-> 0]
    ELSE IF clients[k].priority = desired[k] THEN ClientPuts(w, clients, desired, k + 1, changed)
    ELSE Then(Exec(w, "PUT", "downloadclient", clients[k].id,
                   [clients[k] EXCEPT !.priority = desired[k]], 1), LAMBDA r :
         IF r.exc THEN ClientPuts(Say(r.w, "put_error"), clients, desired, k + 1, changed)
         ELSE IF r.status \notin {200, 202}
         THEN ClientPuts(Say(r.w, "put_failed"), clients, desired, k + 1, changed)
         ELSE ClientPuts(r.w, clients, desired, k + 1, TRUE))

\* set_download_client_priorities(app_url, api_key, sab_first).  The listing
\* is requests.get(...).json() without raise_for_status: of an error answer,
\* json() raises (caught, return) or yields the error object (error_json),
\* on whose keys c.get then raises AttributeError.
set_download_client_priorities(w0, sab_first, error_json) ==
    Then(w0.remote.downloadclient, LAMBDA clients :
    Then(Exec(w0, "GET", "downloadclient", 0, NoBody, 1), LAMBDA l :
    IF l.exc THEN [w |-> Say(l.w, "list_failed"), ret |-> 0]
    ELSE IF l.status >= 400
    THEN IF error_json THEN [w |-> Say(l.w, "raised"), ret |-> -1]
         ELSE [w |-> Say(l.w, "list_failed"), ret |-> 0]
    ELSE IF FirstClient(clients, "SABnzbd") = 0 /\ FirstClient(clients, "QBittorrent") = 0
    THEN [w |-> Say(l.w, "no_clients"), ret |-> 0]
    ELSE Then(DesiredPreferred(clients, sab_first), LAMBDA top :
         ClientPuts(l.w, clients,
                    DesiredOthers(clients, top, {top[k] : k \in DOMAIN top} \ {0}, 3, 1),
                    1, FALSE))))

FSR_NAME == <<"FlareSolverr">>
FSR_URL_IN_DOCKER == "http://flaresolverr:8191"

\* get_proxy_base(api_key): the first of the two endpoints whose GET is
\* answered 200, 204 or 405, "indexerproxy" when neither is
RECURSIVE ProxyBaseFrom(_, _)
ProxyBaseFrom(w, bases) ==
    IF bases = <<>> THEN [w |-> Say(w, "base_fallback"), base |-> "indexerproxy"]
    ELSE Then(Exec(w, "GET", Head(bases), 0, NoBody, 1), LAMBDA r :
         IF ~r.exc /\ r.status \in {200, 204, 405} THEN [w |-> r.w, base |-> Head(bases)]
         ELSE ProxyBaseFrom(r.w, Tail(bases)))

get_proxy_base(w) == ProxyBaseFrom(w, <<"indexerproxy", "proxy">>)

\* list_proxies(proxy_base, api_key): the list, None (ok FALSE) when the
\* status is not 200; the exception of requests.get is not caught
list_proxies(w0, proxy_base) ==
    Then(w0.remote[proxy_base], LAMBDA coll :
    Then(Exec(w0, "GET", proxy_base, 0, NoBody, 1), LAMBDA r :
    IF r.exc THEN [w |-> r.w, exc |-> TRUE, ok |-> FALSE, list |-> <<>>]
    ELSE IF r.status # 200
    THEN [w |-> Say(r.w, "list_failed"), exc |-> FALSE, ok |-> FALSE, list |-> <<>>]
    ELSE [w |-> r.w, exc |-> FALSE, ok |-> TRUE, list |-> coll]))

ProxyPayload(tag_id) ==
    Ent(0, FSR_NAME, "FlareSolverr", IF tag_id # 0 THEN <<tag_id>> ELSE <<>>, FALSE, 0,
        << Field("host", FSR_URL_IN_DOCKER), Field("requestTimeout", "60"),
           Field("proxyType", "FlareSolverr") >>)

\* r1 = requests.post(proxy_base); whatever status is not 200 or 201:
\* r2 = requests.post(alt_base).  Neither exception is caught.
ProxyPosts(w, proxy_base, payload) ==
    Then(Exec(w, "POST", proxy_base, 0, payload, 1), LAMBDA r1 :
    IF r1.exc THEN [w |-> r1.w, ret |-> -1]
    ELSE IF r1.status \in {200, 201} THEN [w |-> Say(r1.w, "proxy_created"), ret |-> r1.id]
    ELSE Then(Exec(Say(r1.w, "trying_alt"), "POST",
                   IF proxy_base = "indexerproxy" THEN "proxy" ELSE "indexerproxy",
                   0, payload, 1), LAMBDA r2 :
         IF r2.exc THEN [w |-> r2.w, ret |-> -1]
         ELSE IF r2.status \in {200, 201}
         THEN [w |-> Say(r2.w, "proxy_created_alt"), ret |-> r2.id]
         ELSE [w |-> Say(r2.w, "proxy_failed"), ret |-> 0]))

\* create_proxy_if_needed(api_key): the id of the proxy, 0 for None
create_proxy_if_needed(w0, create_proxy) ==
    IF ~create_proxy THEN [w |-> Say(w0, "proxy_disabled"), ret |-> 0]
    ELSE Then(get_proxy_base(w0), LAMBDA b :
         Then(ensure_tag_id(b.w, CF_TAG_LABEL), LAMBDA t :
         Then(list_proxies(t.w, b.base), LAMBDA l :
         Then(FirstIdx(l.list, 1, Len(l.list),
                       LAMBDA p : p.name = FSR_NAME
                                  /\ p.implementation \in {"FlareSolverr", "FLARESOLVERR"}),
              LAMBDA i :
         IF l.exc THEN [w |-> l.w, ret |-> -1]
         ELSE IF l.ok /\ i # 0 THEN [w |-> Say(l.w, "proxy_exists"), ret |-> l.list[i].id]
         ELSE ProxyPosts(l.w, b.base, ProxyPayload(t.id))))))

-----------------------------------------------------------------------------
(* The patcher calls as actions.  A document is any sequence of at most    *)
(* MaxDocLen lines over one of the line sets below; a patcher is called on *)
(* it, and then once more with the same arguments.                         *)

MaxDocLen == 3

MiscLines ==
    { Sec("misc", "plain"), Sec("other", "plain"),
      Kv("complete_dir", COMPLETED_DOWNLOADS, "canon"),
      Kv("download_dir", <<"/old">>, "var"),
      Kv("language", <<"fr">>, "var"),
      Blank }

WhitelistLines ==
    { Sec("misc", "var"), Sec("other", "plain"), Sub("x", "var"),
      Kv("host_whitelist", <<"localhost">>, "canon"),
      Kv("host_whitelist", <<"lan", "lan">>, "var"),
      Blank }

ServerLines ==
    { Sec("servers", "plain"), Sec("other", "plain"),
      Sub(SAB_SRV_NAME, "var"), Sub("srv2", "block"),
      Kv("host", <<"old.example">>, "block"),
      Txt("# comment") }

CategoryLines ==
    { Sec("categories", "plain"), Sec("other", "plain"),
      Sub("tv", "var"), Sub("movies", "block"),
      Kv("dir", <<"tv">>, "block"),
      Blank }

LineSets == {MiscLines, WhitelistLines, ServerLines, CategoryLines}

\* What read_text can return: no last line "" without its terminator
IsContent(lines, nl) ==
    /\ lines = <<>> => ~nl
    /\ (lines # <<>> /\ ~nl) => lines[Len(lines)] # Blank

\* SAB_SRV_HOST: unset (""), or a host
ServerHosts == {"", "news.example"}

NoCall ==
    [op |-> "none", args |-> <<>>, ret |-> FALSE, before |-> NoFile, read |-> NoFile,
     changed |-> FALSE, wroteBak |-> FALSE, wroteFile |-> FALSE, restarted |-> FALSE,
     again |-> FALSE, prevOk |-> FALSE]

\* A call that did what it had to: it read the file and either had nothing
\* to change or wrote the backup and the file.
CallOk(c) == c.read.exists /\ (c.wroteFile \/ ~c.changed)

\* Whether the call (op, args) may start: the first call, or the same call again
MayCall(op, args) ==
    \/ plast.op = "none"
    \/ plast.op = op /\ plast.args = args /\ ~plast.again

Record(op, args, r, restarted) ==
    [op |-> op, args |-> args, ret |-> r.ret, before |-> file, read |-> r.read,
     changed |-> r.changed, wroteBak |-> r.wroteBak, wroteFile |-> r.wroteFile, restarted |-> restarted,
     again |-> plast.op = op, prevOk |-> plast.op = op /\ CallOk(plast)]

Apply(op, args, r, restarted) ==
    /\ file' = r.file
    /\ bak' = r.bak
    /\ plast' = Record(op, args, r, restarted)
    /\ UNCHANGED <<gvars, mvars, job, rvars, tvars, wvars>>

\* No patcher call in steps
NoJob ==
    [pc |-> "idle", op |-> "none", text |-> NoFile, io |-> "ok", ext |-> "none",
     wrote |-> FALSE]

\* What may follow the lines drawn from a line set: nothing, or another
\* section and an empty last line
DocTails == { <<>>, <<Sec("other", "plain"), Blank>> }

StartPatch ==
    /\ \E L \in LineSets : \E ls \in SeqsUpTo(L, MaxDocLen) : \E tail \in DocTails :
       \E nl \in BOOLEAN :
          /\ IsContent(ls \o tail, nl)
          /\ file = Text(ls \o tail, nl)
    /\ bak = NoFile
    /\ plast = NoCall
    /\ job = NoJob

Language ==
    \E io \in IoOutcomes :
        /\ MayCall("language", <<SAB_LANG>>)
        /\ Apply("language", <<SAB_LANG>>, ensure_sab_language(file, bak, SAB_LANG, io), FALSE)

Folders ==
    \E io \in IoOutcomes :
        LET args == <<INCOMPLETE_DOWNLOADS, COMPLETED_DOWNLOADS>> IN
        /\ MayCall("folders", args)
        /\ Apply("folders", args,
                 ensure_sab_folders(file, bak, INCOMPLETE_DOWNLOADS, COMPLETED_DOWNLOADS, io),
                 FALSE)

Categories ==
    \E io \in IoOutcomes :
        /\ MayCall("categories", <<SAB_CATS>>)
        /\ Apply("categories", <<SAB_CATS>>, ensure_sab_categories(file, bak, SAB_CATS, io), FALSE)

Server ==
    \E io \in IoOutcomes : \E host \in ServerHosts :
        /\ MayCall("server", <<SAB_SRV_NAME, host>>)
        /\ Apply("server", <<SAB_SRV_NAME, host>>,
                 ensure_sab_server(file, bak, SAB_SRV_NAME, host, io), FALSE)

\* After a successful write ensure_sab_whitelist runs `docker restart`.
Whitelist ==
    \E io \in IoOutcomes :
        LET r == ensure_sab_whitelist(file, bak, SAB_WHITELIST, io) IN
        /\ MayCall("whitelist", <<SAB_WHITELIST>>)
        /\ Apply("whitelist", <<SAB_WHITELIST>>, r, r.ret)

NextPatch == Language \/ Folders \/ Categories \/ Server \/ Whitelist

-----------------------------------------------------------------------------
(* A patcher next to an external writer.  ensure_sab_whitelist and         *)
(* ensure_sab_folders take no lock: a call is the step that reads the file *)
(* (p.read_text) and the step that writes the backup and the file          *)
(* (backup.write_text, p.write_text), and another process may write the    *)
(* file before, between and after the two.  `job` is                       *)
(*   pc     "idle" before the read, "read" after it, "done" after the      *)
(*          return                                                         *)
(*   op     the patcher                                                    *)
(*   text   the text read                                                  *)
(*   io     where the file system fails in this call                       *)
(*   ext    when the external process wrote: "none", "before" the read,    *)
(*          "between" read and write, "after" the return                   *)
(*   wrote  whether the patcher wrote the file                             *)

\* The line the external process adds to the file
ExternalLine == Txt("# external")

\* The text the file is left with by the external process
ExternalText(text) == Text(SplitLines(text) \o <<ExternalLine>>, TRUE)

\* The text a patcher that read the file again before writing would patch.
PatchedTextCurrent(read, current) == current

\* The text a patcher patches: lines = text.splitlines() of the text read at
\* the start of the call, whatever the file holds by the time of the write
PatchedText(read, current) == read

RacePatchers == {"whitelist", "folders"}

StartRace ==
    /\ \E L \in {MiscLines, WhitelistLines} : \E ls \in SeqsUpTo(L, MaxDocLen) :
       \E nl \in BOOLEAN :
          /\ IsContent(ls, nl)
          /\ file = Text(ls, nl)
    /\ bak = NoFile
    /\ plast = NoCall
    /\ job = NoJob

\* text = p.read_text(...), or the return after it failed
PatcherRead ==
    \E op \in RacePatchers : \E io \in IoOutcomes :
        /\ job.pc = "idle"
        /\ job' = [job EXCEPT !.pc = IF io = "noread" THEN "done" ELSE "read",
                              !.op = op, !.io = io,
                              !.text = IF io = "noread" THEN NoFile ELSE file]
        /\ UNCHANGED <<gvars, mvars, file, bak, plast, rvars, tvars, wvars>>

\* The rest of the call: the patch of the lines read, the backup and the
\* write, or the return without a write
PatcherWrite ==
    /\ job.pc = "read"
    /\ LET text == PatchedText(job.text, file)
           r == IF job.op = "whitelist"
                THEN ensure_sab_whitelist(text, bak, SAB_WHITELIST, job.io)
                ELSE ensure_sab_folders(text, bak, INCOMPLETE_DOWNLOADS, COMPLETED_DOWNLOADS,
                                        job.io)
       IN  /\ file' = IF r.wroteFile THEN r.file ELSE file
           /\ bak' = IF r.wroteBak THEN r.bak ELSE bak
           /\ job' = [job EXCEPT !.pc = "done", !.wrote = r.wroteFile]
    /\ UNCHANGED <<gvars, mvars, plast, rvars, tvars, wvars>>

\* Another process writes the file, once
ExternalWrite ==
    /\ job.ext = "none"
    /\ file' = ExternalText(file)
    /\ job' = [job EXCEPT !.ext = CASE job.pc = "idle" -> "before"
                                    [] job.pc = "read" -> "between"
                                    [] OTHER -> "after"]
    /\ UNCHANGED <<gvars, mvars, bak, plast, rvars, tvars, wvars>>

NextRace == PatcherRead \/ PatcherWrite \/ ExternalWrite

-----------------------------------------------------------------------------
(* The patchers one after another on the same file, in the order main      *)
(* calls them in a pass (whitelist, categories, folders and, with          *)
(* SAB_CONFIG_PROVIDER, language and server), pass after pass.             *)

MaxSeqDocLen == 1

StartSeq ==
    /\ \E L \in LineSets : \E ls \in SeqsUpTo(L, MaxSeqDocLen) : \E nl \in BOOLEAN :
          /\ IsContent(ls, nl)
          /\ file = Text(ls, nl)
    /\ bak = NoFile
    /\ plast = NoCall
    /\ job = NoJob

SeqPatchers == {"whitelist", "categories", "folders", "language", "server"}

\* The call of patcher op with the arguments main gives it
MainCall(op, text, b, io) ==
    CASE op = "whitelist" -> ensure_sab_whitelist(text, b, SAB_WHITELIST, io)
      [] op = "categories" -> ensure_sab_categories(text, b, SAB_CATS, io)
      [] op = "folders" ->
             ensure_sab_folders(text, b, INCOMPLETE_DOWNLOADS, COMPLETED_DOWNLOADS, io)
      [] op = "language" -> ensure_sab_language(text, b, SAB_LANG, io)
      [] op = "server" -> ensure_sab_server(text, b, SAB_SRV_NAME, "news.example", io)

\* The patchers main may call after the patcher prev: the next one of the
\* pass, or the first one of the next pass
FollowsInMain(prev) ==
    CASE prev \in {"none", "server"} -> {"whitelist"}
      [] prev = "whitelist" -> {"categories"}
      [] prev = "categories" -> {"folders"}
      [] prev = "folders" -> {"language", "whitelist"}
      [] prev = "language" -> {"server"}

SeqPatch ==
    \E op \in FollowsInMain(plast.op) : \E io \in IoOutcomes :
        LET r == MainCall(op, file, bak, io) IN
        Apply(op, <<>>, r, op = "whitelist" /\ r.ret)

NextSeq == SeqPatch

-----------------------------------------------------------------------------
(* The reconcile calls as actions.  The remote starts with at most MaxApps *)
(* applications, or with at most MaxIndexers indexers and some tags; a     *)
(* reconcile call runs against it under a script that puts faults on some  *)
(* of its first MaxScriptLen requests, and then once more with the same    *)
(* arguments; the two calls meet at most MaxFaults faults together.        *)

MaxFaults == 1
MaxScriptLen == 4
MaxApps == 2
MaxIndexers == 1

SONARR == <<"Sonarr">>
RADARR == <<"Radarr">>

\* Applications a remote may hold before the first call: one of the desired
\* name with stale fields, one of another name whose implementation is the
\* desired one, one of the other application.
AppShapes ==
    { Ent(0, SONARR, SONARR, <<>>, FALSE, 0,
          <<Field("apiKey", "old-key"), Field("syncLevel", "fullSync")>>),
      Ent(0, <<"TV">>, SONARR, <<>>, FALSE, 0, <<>>),
      Ent(0, RADARR, RADARR, <<>>, FALSE, 0,
          ensure_fields(<<>>, RADARR_URL_IN_DOCKER, "radarr-key")) }

IndexerShapes ==
    { Ent(0, <<"E", "z">>, <<"E", "z">>, <<>>, FALSE, 0, <<>>),
      Ent(0, <<"e", "-", "z">>, <<"E", "z">>, <<2, 3>>, TRUE, 9,
          <<Field("baseUrl", "http://old"), Field("extra", "x")>>),
      Ent(0, <<"E", "_", "z">>, <<"E", "z">>, <<1>>, FALSE, 0,
          <<Field("baseUrl", "http://ez")>>) }

TagStates ==
    { <<>>, <<Tag(1, CF_TAG_LABEL)>>, <<Tag(1, <<"x">>), Tag(2, <<"y">>), Tag(3, CF_TAG_LABEL)>> }

\* The collections of at most n entities of distinct names, ids 1..n
Collections(shapes, n) ==
    { [i \in DOMAIN s |-> [s[i] EXCEPT !.id = i]] :
        s \in {x \in SeqsUpTo(shapes, n) :
                 \A i, j \in DOMAIN x : i # j => x[i].name # x[j].name} }

\* The number of faults of a script
NFaults(s) == Cardinality({i \in DOMAIN s : s[i] # "ok"})

\* The script that puts the faults f[i] on the requests i of DOMAIN f
ScriptOf(f) ==
    [i \in 1..(IF DOMAIN f = {} THEN 0 ELSE Max(DOMAIN f)) |->
        IF i \in DOMAIN f THEN f[i] ELSE "ok"]

\* The scripts of at most n faults, all among the first MaxScriptLen requests
Scripts(n) ==
    {ScriptOf(f) : f \in UNION {[P -> Faults \ {"ok"}] :
                                  P \in {Q \in SUBSET (1..MaxScriptLen) : Cardinality(Q) <= n}}}

\* main() calls add_app for Sonarr and for Radarr
AppCalls ==
    { <<SONARR, SONARR_URL_IN_DOCKER, "sonarr-key">>,
      <<RADARR, RADARR_URL_IN_DOCKER, "radarr-key">> }

TorrentDef ==
    Def(<<"E", "z">>, <<"E", "z">>, "Cardigann", "torrent",
        <<SchemaField("baseUrl", FALSE, "", "http://default"),
          SchemaField("cookie", TRUE, "c0", "")>>)
UsenetDef ==
    Def(<<"E", "z", "x">>, <<"N", "a", "b">>, "Newznab", "Usenet",
        <<SchemaField("apiKey", TRUE, "", "")>>)
NamelessDef ==
    Def(<<>>, <<"E", "-", "Z">>, "Cardigann", "torrent", <<>>)

DefLists == { <<>>, <<TorrentDef>>, <<UsenetDef>>, <<UsenetDef, TorrentDef>>, <<NamelessDef>> }

\* names of INDEXERS
IndexerNames == { <<"E", "z">>, <<"z">> }

\* proxy_id: None (0) or the id create_proxy_if_needed returned
ProxyIds == {0, 7}

\* A remote that holds nothing
NoRemote ==
    [apps |-> <<>>, indexers |-> <<>>, tags |-> <<>>, indexerproxy |-> <<>>, proxy |-> <<>>,
     rootfolder |-> <<>>, host |-> <<>>, downloadclient |-> <<>>]

\* Root folders a Sonarr or Radarr may hold before the call
RootFolderStates ==
    { <<>>,
      <<Ent(1, CONTAINER_MOVIES_DIR, <<>>, <<>>, FALSE, 0, <<>>)>>,
      <<Ent(1, CONTAINER_SHOWS_DIR \o <<"/">>, <<>>, <<>>, FALSE, 0, <<>>)>> }

\* The host configuration of an *Arr before the call
HostStates == { <<Ent(1, "none", <<>>, <<>>, FALSE, 0, <<>>)>> }

\* Proxies Prowlarr may hold before the call
ProxyStates ==
    { <<>>,
      <<Ent(1, FSR_NAME, "FLARESOLVERR", <<>>, FALSE, 0, <<>>)>>,
      <<Ent(1, FSR_NAME, "Http", <<>>, FALSE, 0, <<>>)>> }

\* The update-related keys the host configuration of an *Arr may hold
UpdateKeyLists ==
    {x \in SeqsUpTo({Field("updateMechanism", "builtin"), Field("updateMechanism", "docker"),
                     Field("branch", "develop"), Field("branch", "stable"),
                     Field("updateAutomatically", "true"), Field("automatic", "false")}, 2) :
        \A i, j \in DOMAIN x : x[i].name = x[j].name => i = j}

\* The host configuration before set_arr_updates_to_docker: with an id, and
\* one without
UpdateHostStates ==
    {<<[Ent(1, "none", <<>>, <<>>, FALSE, 0, <<>>) EXCEPT !.updates = u]>> : u \in UpdateKeyLists}
    \cup {<<[Ent(0, "none", <<>>, <<>>, FALSE, 0, <<>>) EXCEPT
                !.updates = <<Field("branch", "develop")>>]>>}

MaxPrioIndexers == 2

\* The protocol and priority of the indexers Prowlarr may hold
PrioShapes ==
    { <<"usenet", USENET_PRIO>>, <<"Usenet", 25>>, <<"torrent", TORRENT_PRIO>>,
      <<"torrent", USENET_PRIO>>, <<"", 25>>, <<"", TORRENT_PRIO>> }

PrioIndexerStates ==
    { [i \in DOMAIN s |->
          [Ent(i, [j \in 1..i |-> "n"], <<>>, <<>>, FALSE, 0, <<>>) EXCEPT
              !.protocol = s[i][1], !.priority = s[i][2]]] :
        s \in SeqsUpTo(PrioShapes, MaxPrioIndexers) }

NoRCall ==
    [op |-> "none", args |-> <<>>, before |-> NoRemote,
     reqs |-> <<>>, log |-> <<>>, ret |-> 0, faults |-> 0,
     again |-> FALSE, prevClean |-> FALSE]

\* A call all of whose requests were answered 2xx at the first attempt
Clean(c) ==
    \A i \in DOMAIN c.reqs : c.reqs[i].attempts = 1 /\ c.reqs[i].status \in {200, 201, 202}

MayReconcile(op, args) ==
    \/ rlast.op = "none"
    \/ rlast.op = op /\ rlast.args = args /\ ~rlast.again

World(script) == [remote |-> remote, script |-> script, reqs |-> <<>>, log |-> <<>>]

Reconciled(op, args, script, w, ret) ==
    /\ remote' = w.remote
    /\ rlast' = [op |-> op, args |-> args, before |-> remote, reqs |-> w.reqs,
                 log |-> w.log, ret |-> ret, faults |-> rlast.faults + NFaults(script),
                 again |-> rlast.op = op, prevClean |-> rlast.op = op /\ Clean(rlast)]
    /\ UNCHANGED <<gvars, mvars, pvars, tvars, wvars>>

StartReconcile ==
    /\ \/ remote \in {[NoRemote EXCEPT !.apps = a] : a \in Collections(AppShapes, MaxApps)}
       \/ remote \in {[NoRemote EXCEPT !.indexers = i, !.tags = t] :
                         i \in Collections(IndexerShapes, MaxIndexers), t \in TagStates}
       \/ remote \in {[NoRemote EXCEPT !.rootfolder = r, !.host = h] :
                         r \in RootFolderStates, h \in HostStates}
       \/ remote \in {[NoRemote EXCEPT !.indexerproxy = p, !.tags = t] :
                         p \in ProxyStates, t \in TagStates}
       \/ remote \in {[NoRemote EXCEPT !.host = h] : h \in UpdateHostStates}
       \/ remote \in {[NoRemote EXCEPT !.indexers = i] : i \in PrioIndexerStates}
    /\ rlast = NoRCall

AddApp ==
    \E a \in AppCalls : \E script \in Scripts(MaxFaults - rlast.faults) :
        LET r == add_app(World(script), a[1], a[2], a[3]) IN
        /\ MayReconcile("add_app", a)
        /\ Reconciled("add_app", a, script, r.w, r.ret)

CreateIndexer ==
    \E defs \in DefLists : \E name \in IndexerNames : \E proxy_id \in ProxyIds :
    \E script \in Scripts(MaxFaults - rlast.faults) :
        LET args == <<defs, name, proxy_id>> IN
        /\ MayReconcile("create_indexer", args)
        /\ Reconciled("create_indexer", args, script,
                      create_indexer_with_optional_proxy(World(script), defs, name, proxy_id), 0)

\* main: set_app_synclevel_and_sync("Sonarr", ...), ("Radarr", ...)
SetSyncLevel ==
    \E name \in {SONARR, RADARR} : \E script \in Scripts(MaxFaults - rlast.faults) :
        /\ MayReconcile("set_app_synclevel_and_sync", <<name>>)
        /\ Reconciled("set_app_synclevel_and_sync", <<name>>, script,
                      set_app_synclevel_and_sync(World(script), name), 0)

\* main: ensure_root_folder(RADARR_URL, ..., CONTAINER_MOVIES_DIR) and
\* ensure_root_folder(SONARR_URL, ..., CONTAINER_SHOWS_DIR)
EnsureRootFolder ==
    \E path \in {CONTAINER_MOVIES_DIR, CONTAINER_SHOWS_DIR} : \E error_json \in BOOLEAN :
    \E script \in Scripts(MaxFaults - rlast.faults) :
        LET r == ensure_root_folder(World(script), path, error_json) IN
        /\ MayReconcile("ensure_root_folder", <<path, error_json>>)
        /\ Reconciled("ensure_root_folder", <<path, error_json>>, script, r.w, r.ret)

\* main: set_arr_auth(..., UI_USER, UI_PASS, AUTH_METHOD); the three come
\* from the environment
SetArrAuth ==
    \E username \in {UI_USER, ""} : \E method \in {AUTH_METHOD, "basic"} :
    \E script \in Scripts(MaxFaults - rlast.faults) :
        LET r == set_arr_auth(World(script), username, UI_PASS, method) IN
        /\ MayReconcile("set_arr_auth", <<username, method>>)
        /\ Reconciled("set_arr_auth", <<username, method>>, script, r.w, r.ret)

\* main: proxy_id = create_proxy_if_needed(PROWLARR_API_KEY); CREATE_PROXY
\* comes from the environment
CreateProxy ==
    \E create_proxy \in BOOLEAN : \E script \in Scripts(MaxFaults - rlast.faults) :
        LET r == create_proxy_if_needed(World(script), create_proxy) IN
        /\ MayReconcile("create_proxy_if_needed", <<create_proxy>>)
        /\ Reconciled("create_proxy_if_needed", <<create_proxy>>, script, r.w, r.ret)

\* Field lists _merge_fields may be given: existing fields of distinct names,
\* new fields of any names, a name twice included
ExistingFieldLists ==
    {x \in SeqsUpTo({Field("a", "old"), Field("b", "old")}, 2) :
        \A i, j \in DOMAIN x : x[i].name = x[j].name => i = j}

NewFieldLists == SeqsUpTo({Field("a", "new"), Field("c", "new"), Field("c", "newer")}, 2)

\* _merge_fields(existing, new_fields), as create_indexer_with_optional_proxy
\* calls it; the merged list is the value returned
MergeFields ==
    \E existing \in ExistingFieldLists : \E new_fields \in NewFieldLists :
        /\ MayReconcile("_merge_fields", <<existing, new_fields>>)
        /\ Reconciled("_merge_fields", <<existing, new_fields>>, <<>>, World(<<>>),
                      _merge_fields(existing, new_fields))

\* main: set_arr_updates_to_docker(SONARR_URL, ...), (RADARR_URL, ...)
SetUpdatesToDocker ==
    \E script \in Scripts(MaxFaults - rlast.faults) :
        LET r == set_arr_updates_to_docker(World(script)) IN
        /\ MayReconcile("set_arr_updates_to_docker", <<>>)
        /\ Reconciled("set_arr_updates_to_docker", <<>>, script, r.w, r.ret)

\* main: set_prowlarr_indexer_priorities(10, 30, PROWLARR_API_KEY)
SetIndexerPriorities ==
    \E error_json \in BOOLEAN : \E script \in Scripts(MaxFaults - rlast.faults) :
        LET r == set_prowlarr_indexer_priorities(World(script), USENET_PRIO, TORRENT_PRIO,
                                                 error_json) IN
        /\ MayReconcile("set_prowlarr_indexer_priorities", <<error_json>>)
        /\ Reconciled("set_prowlarr_indexer_priorities", <<error_json>>, script, r.w, r.ret)

MaxSchemaFields == 2

\* Schema fields a definition may hold: with a value, without the key
\* "value", with an empty value, without a name
SchemaFieldLists ==
    SeqsUpTo({SchemaField("a", TRUE, "v", "d"), SchemaField("a", FALSE, "", "d"),
              SchemaField("b", TRUE, "", "d"), SchemaField("", TRUE, "v", "d")},
             MaxSchemaFields)

\* Override maps: each of the names a key or not, with an empty or a
\* non-empty value; "z" is the name of no schema field
OverrideMaps == UNION {[K -> {"", "ov"}] : K \in SUBSET {"a", "b", "z"}}

\* _build_fields_with_overrides(defn, overrides), as
\* create_indexer_with_optional_proxy and _create_indexer_payload_from_def
\* call it; the list built is the value returned.  The function sends no
\* request and reads nothing of the remote, so it is applied before an
\* empty remote only.
BuildFields ==
    \E fields \in SchemaFieldLists : \E overrides \in OverrideMaps :
        LET defn == Def(<<"E", "z">>, <<"E", "z">>, "Cardigann", "torrent", fields) IN
        /\ remote = NoRemote
        /\ MayReconcile("_build_fields_with_overrides", <<fields, overrides>>)
        /\ Reconciled("_build_fields_with_overrides", <<fields, overrides>>, <<>>, World(<<>>),
                      _build_fields_with_overrides(defn, overrides))

MaxOutages == 6

\* Scripts of a remote that is down for any of the first MaxOutages requests
OutageScripts == [1..MaxOutages -> {"ok", "down"}]

StartConflict ==
    /\ remote \in {[NoRemote EXCEPT !.indexers = i, !.tags = t] :
                      i \in Collections(IndexerShapes, MaxIndexers), t \in TagStates}
    /\ rlast = NoRCall

\* create_indexer_with_optional_proxy against a remote that is down again
\* and again
CreateIndexerInOutages ==
    \E defs \in DefLists : \E name \in IndexerNames : \E script \in OutageScripts :
        LET args == <<defs, name, 0>> IN
        /\ MayReconcile("create_indexer", args)
        /\ Reconciled("create_indexer", args, script,
                      create_indexer_with_optional_proxy(World(script), defs, name, 0), 0)

NextConflict == CreateIndexerInOutages

NextReconcile ==
    \/ BuildFields \/ AddApp \/ CreateIndexer \/ SetSyncLevel \/ EnsureRootFolder \/ SetArrAuth
    \/ CreateProxy \/ MergeFields \/ SetUpdatesToDocker \/ SetIndexerPriorities

-----------------------------------------------------------------------------
(* set_download_client_priorities as an action, against the download       *)
(* clients of one application: at most MaxClients clients, called with     *)
(* either value of sab_first and then once more with the same arguments.   *)

MaxClients == 3

\* The implementation and priority of the clients an application may hold
ClientShapes ==
    { <<"SABnzbd", 2>>, <<"QBittorrent", 1>>, <<"QBittorrent", 4>>,
      <<"Transmission", 0>>, <<"Transmission", 1>>, <<"Transmission", 3>> }

ClientStates ==
    { [i \in DOMAIN s |->
          [Ent(i, [j \in 1..i |-> "n"], s[i][1], <<>>, FALSE, 0, <<>>) EXCEPT
              !.priority = s[i][2]]] :
        s \in SeqsUpTo(ClientShapes, MaxClients) }

StartClients ==
    /\ remote \in {[NoRemote EXCEPT !.downloadclient = c] : c \in ClientStates}
    /\ rlast = NoRCall

\* smart_protocol_tuning: set_download_client_priorities(app_url, api_key,
\* sab_first=...)
SetClientPriorities ==
    \E sab_first \in BOOLEAN : \E error_json \in BOOLEAN :
    \E script \in Scripts(MaxFaults - rlast.faults) :
        LET r == set_download_client_priorities(World(script), sab_first, error_json) IN
        /\ MayReconcile("set_download_client_priorities", <<sab_first, error_json>>)
        /\ Reconciled("set_download_client_priorities", <<sab_first, error_json>>, script,
                      r.w, r.ret)

NextClients == SetClientPriorities

-----------------------------------------------------------------------------
(* main(), one run of the script, in steps.  `pass` is                     *)
(*   pc        the step main is at                                         *)
(*   status    "running", "complete" (main returned), "exit1" (exit(1)),   *)
(*             "raised" (an exception left main)                           *)
(*   provider  SAB_CONFIG_PROVIDER, from where main reads it               *)
(*   wanted    INDEXERS, from where main reads it                          *)
(*   defs      what get_indexer_definitions returned, while in use         *)
(*   proxy_id  what create_proxy_if_needed returned, while in use          *)
(*   i         the position in INDEXERS of the next indexer                *)
(*   events    what main has done, in order: [kind, what, res] with kind   *)
(*             "probe" (a readiness wait), "read_keys", "remote" (a step   *)
(*             that sends requests to a service and may write to it),      *)
(*             "indexer" (a create_indexer_with_optional_proxy call),      *)
(*             "patch" (a text-file patcher), "restart" and "reprobe"      *)
(* A step that calls functions modelled above for their own sake is kept   *)
(* to what it can come to: it returns, or it raises where the function has *)
(* a request or a conversion outside every try.  The indexer step runs     *)
(* create_indexer_with_optional_proxy itself, against any of the remotes   *)
(* of the model.                                                           *)

Ev(kind, what, res) == [kind |-> kind, what |-> what, res |-> res]

NoPass ==
    [pc |-> "none", status |-> "running", provider |-> FALSE, wanted |-> <<>>, defs |-> <<>>,
     proxy_id |-> 0, i |-> 0, events |-> <<>>]

MaxWanted == 2

\* The steps of main that only talk to the services, in order
RemoteSteps == <<"updates", "qbt", "auth", "apps", "proxy", "defs">>

\* What a step can come to: set_arr_updates_to_docker raises on any answer
\* but 200 / 202, get_indexer_definitions calls raise_for_status, and
\* ensure_root_folder, ensure_sab_client, set_prowlarr_indexer_priorities
\* and smart_protocol_tuning have requests or conversions outside every try
StepOutcomes(step) ==
    IF step \in {"updates", "defs", "rootfolders", "sab_clients", "priorities", "tuning"}
    THEN {"returned", "raised"}
    ELSE {"returned"}

\* One key is enough.
KeysOkAny(keys) == keys # {}

\* if not (PROWLARR_API_KEY and SONARR_API_KEY and RADARR_API_KEY): exit(1)
\* keys: the applications whose key was read
KeysOk(keys) == {"prowlarr", "sonarr", "radarr"} \subseteq keys

\* The loop left at the first call that did not create or update.
NextIndexerUntilFailure(i, n, outcome) ==
    IF outcome = "done" THEN i + 1 ELSE n + 1

\* for idx in INDEXERS: the position after the call at position i
NextIndexer(i, n, outcome) == i + 1

\* What a create_indexer_with_optional_proxy call came to: "raised" when an
\* exception left it, "no_definition", "done" when the indexer was created
\* or updated, "failed" otherwise
IndexerOutcome(w) ==
    IF \E k \in DOMAIN w.log : w.log[k] = "raised" THEN "raised"
    ELSE IF \E k \in DOMAIN w.log : w.log[k] = "no_definition" THEN "no_definition"
    ELSE IF \E k \in DOMAIN w.reqs :
               /\ w.reqs[k].c = "indexers" /\ w.reqs[k].m \in {"POST", "PUT"}
               /\ w.reqs[k].status \in {200, 201, 202}
    THEN "done" ELSE "failed"

Raise(step) ==
    pass' = [pass EXCEPT !.events = Append(@, Ev("remote", step, "raised")),
                         !.status = "raised", !.pc = "done"]

StartPass ==
    /\ pass = [NoPass EXCEPT !.pc = "waits"]
    /\ remote = NoRemote
    /\ rlast = NoRCall

\* The applications main waits for before anything else
CoreApps == <<"radarr", "sonarr", "prowlarr", "qbittorrent">>

\* The applications that do not answer within WAIT_TIMEOUT: none, one, all
LateApps == { {}, {"prowlarr"}, {"radarr", "sonarr", "prowlarr", "qbittorrent"} }

\* The value wait_for_http returns for app
Waited(app, late) == Ev("probe", app, IF app \in late THEN "timeout" ELSE "ready")

\* wait_for_http for Radarr, Sonarr, Prowlarr and qBittorrent; the values
\* returned are not looked at
PassWaits ==
    \E late \in LateApps :
        /\ pass.pc = "waits"
        /\ pass' = [pass EXCEPT !.pc = "keys",
                                !.events = @ \o [k \in DOMAIN CoreApps |-> Waited(CoreApps[k], late)]]
        /\ UNCHANGED <<gvars, pvars, rvars, tvars, wvars>>

\* get_arr_keys() and the exit(1) when a key is missing
PassKeys ==
    \E keys \in SUBSET {"prowlarr", "sonarr", "radarr"} :
        /\ pass.pc = "keys"
        /\ pass' = [pass EXCEPT !.events = Append(@, Ev("read_keys", "",
                                                         IF Cardinality(keys) = 3 THEN "all"
                                                         ELSE "missing")),
                                !.pc = IF KeysOk(keys) THEN "updates" ELSE "done",
                                !.status = IF KeysOk(keys) THEN "running" ELSE "exit1"]
        /\ UNCHANGED <<gvars, pvars, rvars, tvars, wvars>>

\* set_arr_updates_to_docker x2; the qBittorrent steps; set_arr_auth x3;
\* add_app and set_app_synclevel_and_sync x2; create_proxy_if_needed;
\* get_indexer_definitions
PassRemote ==
    \E k \in DOMAIN RemoteSteps : \E out \in StepOutcomes(RemoteSteps[k]) :
    \E proxy_id \in ProxyIds : \E defs \in DefLists :
    \E wanted \in SeqsUpTo(IndexerNames, MaxWanted) :
        /\ pass.pc = RemoteSteps[k]
        /\ RemoteSteps[k] # "proxy" => proxy_id = 0
        /\ (RemoteSteps[k] # "defs" \/ out = "raised") => (defs = <<>> /\ wanted = <<>>)
        /\ IF out = "raised" THEN Raise(RemoteSteps[k])
           ELSE pass' = [pass EXCEPT
                    !.events = Append(@, Ev("remote", RemoteSteps[k], out)),
                    !.proxy_id = IF RemoteSteps[k] = "proxy" THEN proxy_id ELSE @,
                    !.defs = IF RemoteSteps[k] = "defs" /\ wanted # <<>> THEN defs ELSE @,
                    !.wanted = IF RemoteSteps[k] = "defs" THEN wanted ELSE @,
                    !.i = 1,
                    !.pc = IF k < Len(RemoteSteps) THEN RemoteSteps[k + 1]
                           ELSE IF wanted = <<>> THEN "rootfolders" ELSE "indexers"]
        /\ UNCHANGED <<gvars, pvars, rvars, tvars, wvars>>

\* for idx in INDEXERS: create_indexer_with_optional_proxy(defs, idx, proxy_id, ...)
PassIndexer ==
    \E ixs \in Collections(IndexerShapes, MaxIndexers) : \E t \in TagStates :
    \E script \in Scripts(MaxFaults) :
        LET w == create_indexer_with_optional_proxy(
                     [remote |-> [NoRemote EXCEPT !.indexers = ixs, !.tags = t],
                      script |-> script, reqs |-> <<>>, log |-> <<>>],
                     pass.defs, pass.wanted[pass.i], pass.proxy_id)
            out == IndexerOutcome(w)
            n == Len(pass.wanted)
        IN  /\ pass.pc = "indexers"
            /\ pass' = [pass EXCEPT
                    !.events = Append(@, Ev("indexer", IF pass.i = 1 THEN "first" ELSE "later", out)),
                    !.i = IF out = "raised" THEN @ ELSE NextIndexer(pass.i, n, out),
                    !.status = IF out = "raised" THEN "raised" ELSE @,
                    !.defs = IF out # "raised" /\ NextIndexer(pass.i, n, out) > n
                             THEN <<>> ELSE @,
                    !.proxy_id = IF out # "raised" /\ NextIndexer(pass.i, n, out) > n
                                 THEN 0 ELSE @,
                    !.pc = IF out = "raised" THEN "done"
                           ELSE IF NextIndexer(pass.i, n, out) > n THEN "rootfolders"
                           ELSE "indexers"]
            /\ UNCHANGED <<gvars, pvars, rvars, tvars, wvars>>

\* ensure_root_folder for Radarr and for Sonarr
PassRootFolders ==
    \E out \in StepOutcomes("rootfolders") :
        /\ pass.pc = "rootfolders"
        /\ IF out = "raised" THEN Raise("rootfolders")
           ELSE pass' = [pass EXCEPT !.events = Append(@, Ev("remote", "rootfolders", out)),
                                     !.pc = "sab"]
        /\ UNCHANGED <<gvars, pvars, rvars, tvars, wvars>>

Patched(changed) == Ev("patch", "sabnzbd", IF changed THEN "changed" ELSE "unchanged")

\* if wait_for_file(SABNZBD_CFG, ...): the patchers, the restart of SABnzbd
\* when one of them returned True, and parse_sab_api_key.  A whitelist
\* patcher that changed the file has restarted the container itself.
PassSab ==
    \E provider \in BOOLEAN : \E found \in BOOLEAN : \E wl, cat, dirs, lang, srv, key \in BOOLEAN :
        /\ pass.pc = "sab"
        /\ ~found => ~(wl \/ cat \/ dirs \/ lang \/ srv \/ key \/ provider)
        /\ ~provider => ~(lang \/ srv)
        /\ pass' = [pass EXCEPT
               !.provider = provider,
               !.events = @ \o <<Ev("probe", "sabnzbd.ini", IF found THEN "found" ELSE "missing")>>
                   \o (IF found
                       THEN <<Patched(wl)>>
                            \o (IF wl THEN <<Ev("restart", "sabnzbd", "by_patcher")>> ELSE <<>>)
                            \o <<Patched(cat), Patched(dirs)>>
                            \o (IF provider THEN <<Patched(lang), Patched(srv)>> ELSE <<>>)
                            \o (IF wl \/ cat \/ dirs \/ (provider /\ (lang \/ srv))
                                THEN <<Ev("restart", "sabnzbd", ""), Ev("reprobe", "sabnzbd", "")>>
                                ELSE <<>>)
                       ELSE <<>>),
               !.pc = IF found /\ key THEN "sab_clients" ELSE "priorities"]
        /\ UNCHANGED <<gvars, pvars, rvars, tvars, wvars>>

\* if SABNZBD_API_KEY: ensure_sab_client x2 and, when one of them failed,
\* ensure_sab_categories once more and the two calls again
PassSabClients ==
    \E out \in StepOutcomes("sab_clients") : \E ok, cat \in BOOLEAN :
    \E again \in StepOutcomes("sab_clients") :
        /\ pass.pc = "sab_clients"
        /\ ok => (~cat /\ again = "returned")
        /\ IF out = "raised" THEN ok /\ Raise("sab_clients")
           ELSE IF ok
           THEN pass' = [pass EXCEPT !.events = Append(@, Ev("remote", "sab_clients", out)),
                                     !.pc = "priorities"]
           ELSE IF again = "raised"
           THEN pass' = [pass EXCEPT
                    !.events = @ \o <<Ev("remote", "sab_clients", "failed"), Patched(cat),
                                      Ev("remote", "sab_clients", "raised")>>,
                    !.status = "raised", !.pc = "done"]
           ELSE pass' = [pass EXCEPT
                    !.events = @ \o <<Ev("remote", "sab_clients", "failed"), Patched(cat),
                                      Ev("remote", "sab_clients", again)>>,
                    !.pc = "priorities"]
        /\ UNCHANGED <<gvars, pvars, rvars, tvars, wvars>>

\* set_prowlarr_indexer_priorities and smart_protocol_tuning x2
PassTuning ==
    \E step \in {"priorities", "tuning"} : \E out \in StepOutcomes(step) :
        /\ pass.pc = step
        /\ IF out = "raised" THEN Raise(step)
           ELSE pass' = [pass EXCEPT !.events = Append(@, Ev("remote", step, out)),
                                     !.pc = IF step = "priorities" THEN "tuning" ELSE "restarts"]
        /\ UNCHANGED <<gvars, pvars, rvars, tvars, wvars>>

\* restart_container for Sonarr, Radarr and Prowlarr, wait_for_http for the
\* three, "Bootstrap complete"
PassRestarts ==
    /\ pass.pc = "restarts"
    /\ pass' = [pass EXCEPT
           !.events = @ \o <<Ev("restart", "sonarr", ""), Ev("restart", "radarr", ""),
                             Ev("restart", "prowlarr", ""), Ev("reprobe", "sonarr", ""),
                             Ev("reprobe", "radarr", ""), Ev("reprobe", "prowlarr", "")>>,
           !.pc = "done", !.status = "complete"]
    /\ UNCHANGED <<gvars, pvars, rvars, tvars, wvars>>

NextPass ==
    \/ PassWaits \/ PassKeys \/ PassRemote \/ PassIndexer \/ PassRootFolders
    \/ PassSab \/ PassSabClients \/ PassTuning \/ PassRestarts

-----------------------------------------------------------------------------
(* The retrying wrappers http_put_with_retries and post_with_retries, one  *)
(* step per request and per sleep.  `call` is                              *)
(*   fn, tries, delay  the wrapper and its arguments                       *)
(*   i                 the loop index (0-based, as in range(tries))        *)
(*   pc                "loop" before an attempt, "sleep" in time.sleep,    *)
(*                     "done" after the return or the raise                *)
(*   outcomes          per request sent, what came of it                   *)
(*   events            "send" and "sleep" in the order they happened, a    *)
(*                     sleep as <<"sleep", seconds>>                       *)
(*   result            "none" while running, "response", "raised", or      *)
(*                     "returned_none" when the loop ends without either   *)
(*   value             the response returned or the exception raised       *)

PUT_DELAY == 3
POST_DELAY == 4

Response(status) == [kind |-> "response", status |-> status]
Raised(kind) == [kind |-> kind, status |-> 0]

\* What one requests.put / requests.post can come to: a response of any
\* status, requests.exceptions.ConnectionError, ReadTimeout, or another
\* exception (TooManyRedirects, InvalidURL, ...)
Statuses == {200, 400, 503}
AttemptOutcomes ==
    {Response(s) : s \in Statuses}
        \cup {Raised("ConnectionError"), Raised("ReadTimeout"), Raised("Other")}

\* return requests.put(...): whatever was received is returned.
\* (ReturnsBelow500 is the variant that hands back only a status below 500.)
ReturnsBelow500(o) == o.kind = "response" /\ o.status < 500
Returns(o) == o.kind = "response"

\* except (requests.exceptions.ConnectionError, requests.exceptions.ReadTimeout)
Caught(o) == o.kind \in {"ConnectionError", "ReadTimeout"}

\* if i == tries - 1: raise
\* (LastNever is the variant that compares with tries.)
LastNever(i, tries) == i = tries
Last(i, tries) == i = tries - 1

NoWrapperCall ==
    [fn |-> "none", tries |-> 0, delay |-> 0, i |-> 0, pc |-> "done",
     outcomes |-> <<>>, events |-> <<>>, result |-> "none", value |-> Raised("none")]

\* for i in range(tries): one request is sent
Send ==
    /\ call.pc = "loop" /\ call.i < call.tries
    /\ \E o \in AttemptOutcomes :
          LET sent == [call EXCEPT !.outcomes = Append(@, o),
                                   !.events = Append(@, <<"send", 0>>)]
          IN  call' =
                IF Returns(o)
                THEN [sent EXCEPT !.pc = "done", !.result = "response", !.value = o]
                ELSE IF ~Caught(o) \/ Last(call.i, call.tries)
                THEN [sent EXCEPT !.pc = "done", !.result = "raised", !.value = o]
                ELSE [sent EXCEPT !.pc = "sleep"]
    /\ UNCHANGED <<gvars, mvars, pvars, rvars, wvars>>

\* time.sleep(delay), then the next iteration
Sleep ==
    /\ call.pc = "sleep"
    /\ call' = [call EXCEPT !.events = Append(@, <<"sleep", call.delay>>),
                            !.i = @ + 1, !.pc = "loop"]
    /\ UNCHANGED <<gvars, mvars, pvars, rvars, wvars>>

\* range(tries) is exhausted: the function ends without a return statement
FallThrough ==
    /\ call.pc = "loop" /\ call.i >= call.tries
    /\ call' = [call EXCEPT !.pc = "done", !.result = "returned_none"]
    /\ UNCHANGED <<gvars, mvars, pvars, rvars, wvars>>

MaxTries == 3

\* The wrappers as the code calls them: with their default delay, and
\* post_with_retries also with delay=6 (create_indexer_with_optional_proxy)
WrapperCalls ==
    {[NoWrapperCall EXCEPT !.fn = "http_put_with_retries", !.tries = t,
                           !.delay = PUT_DELAY, !.pc = "loop"] : t \in 0..MaxTries}
    \cup {[NoWrapperCall EXCEPT !.fn = "post_with_retries", !.tries = t,
                                !.delay = d, !.pc = "loop"] :
             t \in 0..MaxTries, d \in {POST_DELAY, 6}}

StartRetry == call \in WrapperCalls

NextRetry == Send \/ Sleep \/ FallThrough

-----------------------------------------------------------------------------
(* The readiness waits wait_for_http, wait_for_file and                    *)
(* wait_for_container_ready, one step per probe and per sleep.  `clock` is *)
(* time.time() in seconds.  `wait` is                                      *)
(*   fn, timeout     the wait and its timeout argument                     *)
(*   port            whether wait_for_container_ready got a port           *)
(*   cid, hc         whether the service has a container, and whether the  *)
(*                   container defines a health check                      *)
(*   target          "never": the target never becomes ready; "any": it    *)
(*                   may                                                   *)
(*   pc              "enter", "top" (the loop condition), "http" (the      *)
(*                   in-container probe), "sleep", "done"                  *)
(*   deadline        time.time() + timeout, set on entry                   *)
(*   probes          per probe started, its kind, the clock at start and   *)
(*                   what came of it                                       *)
(*   st              whether the local variable st is bound                *)
(*   via             the probe that made the wait return True              *)
(*   result          "none" while running, "true", "false", or "raised"    *)

NoWait ==
    [fn |-> "none", timeout |-> 0, port |-> FALSE, cid |-> FALSE, hc |-> FALSE,
     target |-> "never", pc |-> "done", deadline |-> 0, entered |-> 0, probes |-> <<>>,
     st |-> FALSE, status |-> "", via |-> "none", result |-> "none"]

\* What came of a probe: kind "response" with the status of the response,
\* "ran" with the return code and the output of the command (or of
\* p.exists()), "raised" when the call raised
Got(kind, status, text) == [kind |-> kind, status |-> status, text |-> text]

Probe(kind, at, got) == [kind |-> kind, at |-> at, got |-> got]

\* Seconds a probe can take: none, or up to its own timeout
HttpGetSeconds == {0, 5}
InspectSeconds == {0, 5}
ExecSeconds == {0, 8}

\* if r.status_code < 500: return True
\* (HttpReadyBelow400 is the variant that wants a status below 400.)
HttpReadyBelow400(o) == o.kind = "response" /\ o.status < 400
HttpReady(o) == o.kind = "response" /\ o.status < 500

\* What requests.get(url, timeout=5) can come to: a response, or an
\* exception (connection refused, timeout); a target that never becomes ready
\* gives nothing that counts as ready
HttpStatuses == {200, 404, 499, 500, 503}
HttpOutcomes(w) ==
    {o \in {Got("response", s, "") : s \in HttpStatuses} \cup {Got("raised", 0, "")} :
        w.target = "never" => ~HttpReady(o)}

\* if rc.returncode == 0 and rc.stdout: return True
ExecReady(o) == o.kind = "ran" /\ o.status = 0 /\ o.text # ""

\* What `docker compose exec -T service sh -lc probe` can come to: a return
\* code with or without output, or an exception (timeout after 8 s)
ExecOutcomes(w) ==
    {o \in {Got("ran", rc, t) : rc \in {0, 1}, t \in {"", "html"}} \cup {Got("raised", 0, "")} :
        w.target = "never" => ~ExecReady(o)}

\* What `docker inspect` prints: the health status when the container defines
\* a health check, else the state; "" when the command raises
InspectOutputs(w) ==
    IF w.hc THEN {"starting", "unhealthy", ""} \cup (IF w.target = "any" THEN {"healthy"} ELSE {})
    ELSE {"running", ""}

\* cid = _cid(service); deadline = time.time() + timeout
Enter ==
    /\ wait.pc = "enter"
    /\ wait' = IF wait.fn = "wait_for_container_ready" /\ ~wait.cid
               THEN [wait EXCEPT !.pc = "done", !.result = "false"]
               ELSE [wait EXCEPT !.pc = "top", !.deadline = clock + wait.timeout,
                                 !.entered = clock]
    /\ UNCHANGED <<gvars, mvars, clock, pvars, rvars, tvars>>

\* wait_for_http: while time.time() < deadline: requests.get(url, timeout=5)
HttpPoll ==
    /\ wait.fn = "wait_for_http" /\ wait.pc = "top" /\ clock < wait.deadline
    /\ \E d \in HttpGetSeconds : \E o \in HttpOutcomes(wait) :
          /\ clock' = clock + d
          /\ wait' = IF HttpReady(o)
                     THEN [wait EXCEPT !.probes = Append(@, Probe("get", clock, o)),
                                       !.pc = "done", !.result = "true", !.via = "get"]
                     ELSE [wait EXCEPT !.probes = Append(@, Probe("get", clock, o)),
                                       !.pc = "sleep"]
    /\ UNCHANGED <<gvars, mvars, pvars, rvars, tvars>>

\* wait_for_file: while time.time() < deadline: if p.exists(): return True
FilePoll ==
    /\ wait.fn = "wait_for_file" /\ wait.pc = "top" /\ clock < wait.deadline
    /\ \E there \in BOOLEAN :
          /\ there => wait.target = "any"
          /\ wait' = IF there
                     THEN [wait EXCEPT !.probes = Append(@, Probe("exists", clock,
                                                                  Got("ran", 0, "exists"))),
                                       !.pc = "done", !.result = "true", !.via = "exists"]
                     ELSE [wait EXCEPT !.probes = Append(@, Probe("exists", clock,
                                                                  Got("ran", 0, ""))),
                                       !.pc = "sleep"]
    /\ UNCHANGED <<gvars, mvars, clock, pvars, rvars, tvars>>

\* wait_for_container_ready: while time.time() < deadline: docker inspect
Inspect ==
    /\ wait.fn = "wait_for_container_ready" /\ wait.pc = "top" /\ clock < wait.deadline
    /\ \E d \in InspectSeconds : \E out \in InspectOutputs(wait) :
          /\ clock' = clock + d
          /\ wait' = LET w == [wait EXCEPT !.probes = Append(@, Probe("inspect", clock,
                                                                     Got("ran", 0, out))),
                                           !.st = TRUE, !.status = out]
                     IN  IF out = "healthy"
                         THEN [w EXCEPT !.pc = "done", !.result = "true", !.via = "inspect"]
                         ELSE IF wait.port THEN [w EXCEPT !.pc = "http"]
                         ELSE [w EXCEPT !.pc = "sleep"]
    /\ UNCHANGED <<gvars, mvars, pvars, rvars, tvars>>

\* if port is not None: docker compose exec ... curl || wget
ExecProbe ==
    /\ wait.pc = "http"
    /\ \E d \in ExecSeconds : \E o \in ExecOutcomes(wait) :
          /\ clock' = clock + d
          /\ wait' = IF ExecReady(o)
                     THEN [wait EXCEPT !.probes = Append(@, Probe("exec", clock, o)),
                                       !.pc = "done", !.result = "true", !.via = "exec"]
                     ELSE [wait EXCEPT !.probes = Append(@, Probe("exec", clock, o)),
                                       !.pc = "sleep"]
    /\ UNCHANGED <<gvars, mvars, pvars, rvars, tvars>>

\* time.sleep(3); time.sleep(2) in wait_for_file
PollSleep ==
    /\ wait.pc = "sleep"
    /\ clock' = clock + (IF wait.fn = "wait_for_file" THEN 2 ELSE 3)
    /\ wait' = [wait EXCEPT !.pc = "top"]
    /\ UNCHANGED <<gvars, mvars, pvars, rvars, tvars>>

\* The loop condition fails: return False; wait_for_container_ready first
\* prints the status it saw last, which raises UnboundLocalError when the
\* loop body never ran
Expire ==
    /\ wait.pc = "top" /\ ~(clock < wait.deadline)
    /\ wait' = IF wait.fn = "wait_for_container_ready" /\ ~wait.st
               THEN [wait EXCEPT !.pc = "done", !.result = "raised"]
               ELSE [wait EXCEPT !.pc = "done", !.result = "false"]
    /\ UNCHANGED <<gvars, mvars, clock, pvars, rvars, tvars>>

MaxTimeout == 7

Waits ==
    {[NoWait EXCEPT !.fn = f, !.timeout = t, !.target = g, !.pc = "enter"] :
        f \in {"wait_for_http", "wait_for_file"}, t \in (-1)..MaxTimeout, g \in {"never", "any"}}
    \cup {[NoWait EXCEPT !.fn = "wait_for_container_ready", !.timeout = t, !.target = g,
                         !.port = p, !.cid = c, !.hc = h, !.pc = "enter"] :
             t \in (-1)..MaxTimeout, g \in {"never", "any"},
             p \in BOOLEAN, c \in BOOLEAN, h \in BOOLEAN}

StartWait == clock = 0 /\ wait \in Waits

NextWait == Enter \/ HttpPoll \/ FilePoll \/ Inspect \/ ExecProbe \/ PollSleep \/ Expire

-----------------------------------------------------------------------------
(* Specifications: one per part of the program, the other parts idle *)

-----------------------------------------------------------------------------
(* vpn_watch.py.  `watch` is                                               *)
(*   pc        "off", "start" before the gate of main, "quit" after quit(),*)
(*             "loop" at the head of `while True`                          *)
(*   set, env  whether VPN_WATCHDOG_ENABLED is set, and its characters     *)
(*   client    whether `client` holds a client (not None)                  *)
(*   last_up   "none" (None), "up" (True), "down" (False)                  *)
(*   retained  the status of the last message retained at MQTT_TOPIC       *)
(*   polls     the iterations of the loop so far                           *)
(*   iter      the last iteration: health is what check_health did, exc    *)
(*             the handler the body ended in ("none" when it raised        *)
(*             nothing), sent the statuses published at MQTT_TOPIC,        *)
(*             before the value of last_up when it began                   *)

NoIter == [health |-> "none", exc |-> "none", sent |-> <<>>, before |-> "none"]

NoWatch ==
    [pc |-> "off", set |-> FALSE, env |-> <<>>, client |-> FALSE, last_up |-> "none",
     retained |-> "none", polls |-> 0, iter |-> NoIter]

\* os.getenv(name, default)
Getenv(set, value, default) == IF set THEN value ELSE default

\* s == True, s a str: a str and a bool are never equal
StrEqTrue(s) == FALSE

\* not os.getenv("VPN_WATCHDOG_ENABLED", "false").lower() == True
GateShut(set, value) ==
    ~StrEqTrue(MapSeq(Lower, Getenv(set, value, <<"f", "a", "l", "s", "e">>)))

MaxEnvLen == 4

EnvChars == {"t", "T", "r", "R", "u", "U", "e", "E", "x"}

StartGate ==
    \E set \in BOOLEAN : \E value \in SeqsUpTo(EnvChars, MaxEnvLen) :
        /\ ~set => value = <<>>
        /\ watch = [NoWatch EXCEPT !.pc = "start", !.set = set, !.env = value]

\* main: if not ...: quit()
WatchGate ==
    /\ watch.pc = "start"
    /\ watch' = [watch EXCEPT !.pc = IF GateShut(watch.set, watch.env) THEN "quit" ELSE "loop"]
    /\ UNCHANGED <<mvars, pvars, rvars, tvars, wvars>>

NextGate == WatchGate

(* The loop of main, from client = None and last_up = None on.  In an      *)
(* iteration check_health returns True ("up") or False ("down") or raises  *)
(* requests.RequestException ("request") or something else ("other");      *)
(* build_client returns ("ok") or raises one of the errors of the MQTT     *)
(* handler ("mqtt") or something else ("other"); publish_status publishes  *)
(* at MQTT_TOPIC and then at MQTT_TOPIC/events, and either of the two      *)
(* raises or not.  An iteration calls build_client and publish_status at   *)
(* most twice each: build[k] and pub[k] are what the k-th call does.       *)

BuildOutcomes == {"ok", "mqtt", "other"}
PubOutcomes == {"ok", "mqtt_first", "mqtt_second", "other_first", "other_second"}
HealthOutcomes == {"up", "down", "request", "other"}

\* The exception a call with outcome o raises, "none" when it returns
RaisedBy(o) ==
    CASE o = "ok" -> "none"
      [] o \in {"mqtt", "mqtt_first", "mqtt_second"} -> "mqtt"
      [] OTHER -> "other"

\* if client is None: client = build_client()
\* s carries the locals, the calls made so far (nb, np) and r, the exception
\* of the last call
BuildIfNone(s, build) ==
    IF s.client THEN [s EXCEPT !.r = "none"]
    ELSE [s EXCEPT !.nb = @ + 1, !.client = (build[s.nb + 1] = "ok"),
                   !.r = RaisedBy(build[s.nb + 1])]

\* publish_status(client, status, ...): the retained message is published
\* first
publish_status(s, pub, status) ==
    LET o == pub[s.np + 1]
        first == o \notin {"mqtt_first", "other_first"}
    IN  [s EXCEPT !.np = @ + 1,
                  !.retained = IF first THEN status ELSE @,
                  !.sent = IF first THEN Append(@, status) ELSE @,
                  !.r = RaisedBy(o)]

\* except requests.RequestException: every exception in it is swallowed
OnRequestError(s, build, pub) ==
    Then(BuildIfNone(s, build), LAMBDA b :
    IF b.r # "none" THEN b
    ELSE IF b.last_up \in {"none", "up"}
    THEN Then(publish_status(b, pub, "down"), LAMBDA p :
         IF p.r # "none" THEN p ELSE [p EXCEPT !.last_up = "down"])
    ELSE [b EXCEPT !.last_up = "down"])

\* except (mqtt.WebsocketConnectionError, ConnectionRefusedError,
\*         ssl.SSLError, OSError): client = None
OnMqttError(s) == [s EXCEPT !.client = FALSE]

\* except Exception: "down" is published, last_up is left as it is
OnOtherError(s, build, pub) ==
    Then(BuildIfNone(s, build), LAMBDA b :
    IF b.r # "none" THEN b ELSE publish_status(b, pub, "down"))

\* The handler of exception e, raised in the try body
Handle(s, e, build, pub) ==
    CASE e = "request" -> OnRequestError([s EXCEPT !.exc = e], build, pub)
      [] e = "mqtt" -> OnMqttError([s EXCEPT !.exc = e])
      [] e = "other" -> OnOtherError([s EXCEPT !.exc = e], build, pub)

\* The body of `while True`, up to time.sleep(POLL_INTERVAL)
Iteration(s, health, build, pub) ==
    IF health \in {"request", "other"} THEN Handle(s, health, build, pub)
    ELSE
    Then(BuildIfNone(s, build), LAMBDA b :
    IF b.r # "none" THEN Handle(b, b.r, build, pub)
    ELSE IF b.last_up = "none" \/ health # b.last_up
    THEN Then(publish_status(b, pub, health), LAMBDA p :
         IF p.r # "none" THEN Handle(p, p.r, build, pub)
         ELSE [p EXCEPT !.last_up = health])
    ELSE b)

MaxPolls == 3

StartWatch == watch = [NoWatch EXCEPT !.pc = "loop"]

Poll ==
    \E health \in HealthOutcomes : \E build \in [1..2 -> BuildOutcomes] :
    \E pub \in [1..2 -> PubOutcomes] :
        LET s == Iteration([client |-> watch.client, last_up |-> watch.last_up,
                            retained |-> watch.retained, nb |-> 0, np |-> 0, r |-> "none",
                            exc |-> "none", sent |-> <<>>],
                           health, build, pub) IN
        /\ watch.pc = "loop"
        /\ watch.polls < MaxPolls
        /\ watch' = [watch EXCEPT !.client = s.client, !.last_up = s.last_up,
                                  !.retained = s.retained, !.polls = @ + 1,
                                  !.iter = [health |-> health, exc |-> s.exc, sent |-> s.sent,
                                            before |-> watch.last_up]]
        /\ UNCHANGED <<mvars, pvars, rvars, tvars, wvars>>

NextWatch == Poll

PatchIdle == file = NoFile /\ bak = NoFile /\ plast = NoCall /\ job = NoJob
ReconcileIdle == remote = NoRCall.before /\ rlast = NoRCall
RetryIdle == call = NoWrapperCall
WaitIdle == clock = 0 /\ wait = NoWait
PassIdle == pass = NoPass
WatchIdle == watch = NoWatch

InitPatch == StartPatch /\ ReconcileIdle /\ RetryIdle /\ WaitIdle /\ PassIdle /\ WatchIdle
InitReconcile == StartReconcile /\ PatchIdle /\ RetryIdle /\ WaitIdle /\ PassIdle /\ WatchIdle
InitRetry == StartRetry /\ PatchIdle /\ ReconcileIdle /\ WaitIdle /\ PassIdle /\ WatchIdle
InitWait == StartWait /\ PatchIdle /\ ReconcileIdle /\ RetryIdle /\ PassIdle /\ WatchIdle
InitClients == StartClients /\ PatchIdle /\ RetryIdle /\ WaitIdle /\ PassIdle /\ WatchIdle
InitPass == StartPass /\ PatchIdle /\ ReconcileIdle /\ RetryIdle /\ WaitIdle /\ WatchIdle
InitRace == StartRace /\ ReconcileIdle /\ RetryIdle /\ WaitIdle /\ PassIdle /\ WatchIdle

SpecPatch == InitPatch /\ [][NextPatch]_vars

SpecReconcile == InitReconcile /\ [][NextReconcile]_vars

InitConflict == StartConflict /\ PatchIdle /\ RetryIdle /\ WaitIdle /\ PassIdle /\ WatchIdle

SpecConflict == InitConflict /\ [][NextConflict]_vars

InitGate == StartGate /\ PatchIdle /\ ReconcileIdle /\ RetryIdle /\ WaitIdle /\ PassIdle

SpecGate == InitGate /\ [][NextGate]_vars

InitWatch == StartWatch /\ PatchIdle /\ ReconcileIdle /\ RetryIdle /\ WaitIdle /\ PassIdle

SpecWatch == InitWatch /\ [][NextWatch]_vars

SpecClients == InitClients /\ [][NextClients]_vars

SpecPass == InitPass /\ [][NextPass]_vars

InitSeq == StartSeq /\ ReconcileIdle /\ RetryIdle /\ WaitIdle /\ PassIdle /\ WatchIdle

SpecSeq == InitSeq /\ [][NextSeq]_vars

SpecRace == InitRace /\ [][NextRace]_vars

SpecRetry == InitRetry /\ [][NextRetry]_vars

SpecWait == InitWait /\ [][NextWait]_vars

\* The interpreter keeps running the wait: every step that can be taken is
\* taken eventually.
SpecWaitFair == SpecWait /\ WF_vars(NextWait)

-----------------------------------------------------------------------------
(* Claims about the text patchers (SpecPatch) *)

TargetSection(op) ==
    CASE op \in {"language", "folders", "whitelist"} -> "misc"
      [] op = "server" -> "servers"
      [] op = "categories" -> "categories"
      [] OTHER -> "none"

\* Whether line i lies in a top-level section named n: the nearest top-level
\* header at or above it is "[n]"
InSection(lines, i, n) ==
    \E h \in 1..i :
        /\ IsHeader(lines[h], n)
        /\ \A j \in (h + 1)..i : ~IsTopHeader(lines[j])

\* The lines outside every top-level section named n, in order
RECURSIVE OutsideFrom(_, _, _)
OutsideFrom(lines, i, n) ==
    IF i > Len(lines) THEN <<>>
    ELSE IF InSection(lines, i, n) THEN OutsideFrom(lines, i + 1, n)
    ELSE <<lines[i]>> \o OutsideFrom(lines, i + 1, n)

OutsideLines(lines, n) == OutsideFrom(lines, 1, n)

\* xs can be obtained from ys by deleting elements
RECURSIVE IsSubsequence(_, _)
IsSubsequence(xs, ys) ==
    IF xs = <<>> THEN TRUE
    ELSE IF ys = <<>> THEN FALSE
    ELSE IF Head(xs) = Head(ys) THEN IsSubsequence(Tail(xs), Tail(ys))
    ELSE IsSubsequence(xs, Tail(ys))

\* C3: non-destructive patch.  After every patcher call that wrote the file,
\* every line that was outside the targeted top-level section is in the
\* output, with the same content and in the same relative order.
C3_NonDestructive ==
    plast.wroteFile =>
        IsSubsequence(OutsideLines(plast.read.lines, TargetSection(plast.op)),
                      SplitLines(file))

Range(s) == {s[i] : i \in DOMAIN s}

\* The keys a [misc] patcher wants, with their values
DesiredKeys(op, args) ==
    CASE op = "language" -> <<Kv("language", args[1], "canon")>>
      [] op = "folders" -> << Kv("download_dir", args[1], "canon"),
                              Kv("complete_dir", args[2], "canon"),
                              Kv("dir_base", <<>>, "canon") >>
      [] OTHER -> <<>>

\* The indices of the lines of key `key` inside the first [misc] section
MiscKeyIdx(lines, key) ==
    LET s == SectionStart(lines, "misc")
        e == SectionEnd(lines, NextSection(lines, s))
    IN  IF s = 0 THEN {} ELSE {i \in (s + 1)..(e - 1) : KeyMatches(lines[i], key)}

\* C16: section key reconciliation.  After ensure_sab_language or
\* ensure_sab_folders has written the file: if the document it read had no
\* [misc] section, the output has exactly one, at its end, holding the desired
\* keys and nothing else; otherwise, for every desired key, if the section
\* held lines of that key it holds as many afterwards (no line is added) and
\* the first of them has the desired value, and if it held none it holds
\* exactly one afterwards, with the desired value, directly below the header
\* (among the lines inserted there).
C16_MiscKeyReconciliation ==
    (plast.op \in {"language", "folders"} /\ plast.wroteFile) =>
        LET b == plast.read.lines
            a == SplitLines(file)
            keys == DesiredKeys(plast.op, plast.args)
            h == SectionStart(a, "misc")
        IN  IF SectionStart(b, "misc") = 0
            THEN /\ Cardinality({i \in DOMAIN a : IsHeader(a[i], "misc")}) = 1
                 /\ Len(a) - h = Len(keys)
                 /\ {a[i] : i \in (h + 1)..Len(a)} = Range(keys)
            ELSE \A n \in DOMAIN keys :
                    LET was == MiscKeyIdx(b, keys[n].k)
                        is == MiscKeyIdx(a, keys[n].k)
                    IN  /\ is # {}
                        /\ CurValue(a[Min(is)]) = keys[n].v
                        /\ IF was # {} THEN Cardinality(is) = Cardinality(was)
                           ELSE Cardinality(is) = 1 /\ Min(is) <= h + Len(keys)

\* The index of the first header, of a section or of a sub-block, below
\* line i; Len(lines) + 1 when there is none
NextHeader(lines, i) ==
    LET k == FirstIdx(lines, i + 1, Len(lines), IsAnyHeader)
    IN  IF k = 0 THEN Len(lines) + 1 ELSE k

\* The index of the header of sub-block nm in the first section named sec,
\* 0 when the section or the sub-block is absent
SubBlockStart(lines, sec, nm) ==
    LET s == SectionStart(lines, sec)
        e == SectionEnd(lines, NextSection(lines, s))
    IN  IF s = 0 THEN 0
        ELSE FirstIdx(lines, s + 1, e - 1, LAMBDA l : SubMatches(l, nm))

\* C17: sub-block replace.  After ensure_sab_server has written a file in
\* whose [servers] section the sub-block existed, the output is the document
\* read with the span from the sub-block's header up to the next header (of a
\* sub-block or of a section) or the end of the file replaced by the rendered
\* block: the lines before the span, the block, the lines after the span.
C17_SubBlockReplace ==
    (plast.op = "server" /\ plast.wroteFile
        /\ SubBlockStart(plast.read.lines, "servers", plast.args[1]) # 0) =>
        LET b == plast.read.lines
            i == SubBlockStart(b, "servers", plast.args[1])
            j == NextHeader(b, i)
        IN  SplitLines(file) = SubSeq(b, 1, i - 1) \o block_for(plast.args[1], plast.args[2])
                                 \o SubSeq(b, j, Len(b))

\* The names, among those a call wants, of which the section named sec of
\* the document holds no sub-block
MissingNames(lines, sec, names) ==
    SelectSeq(names, LAMBDA n : SubBlockStart(lines, sec, n) = 0)

\* The sub-blocks ensure_sab_server and ensure_sab_categories are called for
WantedNames(op, args) ==
    CASE op = "server" -> <<args[1]>>
      [] op = "categories" -> args[1]
      [] OTHER -> <<>>

\* The rendered blocks of the names, in order
RECURSIVE Rendered(_, _, _)
Rendered(op, args, names) ==
    IF names = <<>> THEN <<>>
    ELSE (IF op = "server" THEN block_for(Head(names), args[2]) ELSE cat_block(Head(names)))
         \o Rendered(op, args, Tail(names))

\* The number of sub-block headers nm in the first section named sec
SubCount(lines, sec, nm) ==
    LET s == SectionStart(lines, sec)
        e == SectionEnd(lines, NextSection(lines, s))
    IN  IF s = 0 THEN 0
        ELSE Cardinality({i \in (s + 1)..(e - 1) : SubMatches(lines[i], nm)})

\* C18: sub-block create.  After ensure_sab_server or ensure_sab_categories
\* has written a file whose section held no sub-block of a wanted name: if
\* the section existed, the rendered blocks of the missing names stand at the
\* end of the section, directly before the next top-level header or at the
\* end of the file, below the unchanged lines of the section; if it did not,
\* the output is the document followed by an empty line, the section header
\* and the blocks.  Either way the section holds exactly one sub-block of
\* each of these names.
C18_SubBlockCreate ==
    LET b == plast.read.lines
        a == SplitLines(file)
        sec == TargetSection(plast.op)
        names == MissingNames(b, sec, WantedNames(plast.op, plast.args))
        blk == Rendered(plast.op, plast.args, names)
        s == SectionStart(b, sec)
        e == SectionEnd(b, NextSection(b, s))
    IN  (plast.op \in {"server", "categories"} /\ plast.wroteFile /\ names # <<>>) =>
            /\ IF s = 0
               THEN a = b \o <<Blank, Sec(sec, "plain")>> \o blk
               ELSE /\ SubSeq(a, 1, e - 1) = SubSeq(b, 1, e - 1)
                    /\ SubSeq(a, e, e + Len(blk) - 1) = blk
                    /\ IF e <= Len(b) THEN a[e + Len(blk)] = b[e]
                       ELSE Len(a) = Len(b) + Len(blk)
            /\ \A n \in DOMAIN names : SubCount(a, sec, names[n]) = 1

\* A block was inserted into an existing section that another top-level
\* section follows.
C18_Witness ==
    LET b == plast.read.lines
        sec == TargetSection(plast.op)
        s == SectionStart(b, sec)
    IN  /\ plast.op \in {"server", "categories"} /\ plast.wroteFile
        /\ MissingNames(b, sec, WantedNames(plast.op, plast.args)) # <<>>
        /\ s # 0
        /\ NextSection(b, s) # 0
        /\ s + 1 < NextSection(b, s)

\* The host_whitelist line ensure_sab_whitelist is about: the last one
\* between the first [misc] header and the first header below it that is not
\* "[misc]"; 0 when there is none
WhitelistLine(lines) ==
    LET s == SectionStart(lines, "misc")
        stop == FirstIdx(lines, s + 1, Len(lines),
                         LAMBDA l : IsAnyHeader(l) /\ ~IsHeader(l, "misc"))
        e == IF stop = 0 THEN Len(lines) + 1 ELSE stop
        S == {i \in (s + 1)..(e - 1) : KeyMatches(lines[i], "host_whitelist")}
    IN  IF s = 0 \/ S = {} THEN 0 ELSE Max(S)

\* The position of the first x in xs, 0 when x is not in xs
IndexOf(xs, x) ==
    IF \E i \in DOMAIN xs : xs[i] = x THEN Min({i \in DOMAIN xs : xs[i] = x}) ELSE 0

NoDuplicates(xs) == \A i, j \in DOMAIN xs : xs[i] = xs[j] => i = j

\* C19: list-valued setting merge.  After an ensure_sab_whitelist call that
\* found a host_whitelist line and did what it had to, the hosts of that
\* line are: every host the line held, in the order of their first
\* occurrences, then the wanted hosts it did not hold, in wanted order, no
\* host twice.  When the line held every wanted host and no host twice, the
\* call changes nothing.
C19_WhitelistMerge ==
    LET b == plast.read.lines
        w == WhitelistLine(b)
        cur == CurrentHosts(b[w])
        wanted == plast.args[1]
        res == CurrentHosts(SplitLines(file)[w])
    IN  (plast.op = "whitelist" /\ CallOk(plast) /\ w # 0) =>
            /\ KeyMatches(SplitLines(file)[w], "host_whitelist")
            /\ NoDuplicates(res)
            /\ Range(res) = Range(cur) \cup Range(wanted)
            /\ \A x, y \in Range(cur) :
                   IndexOf(cur, x) < IndexOf(cur, y) => IndexOf(res, x) < IndexOf(res, y)
            /\ \A x \in Range(cur) : \A y \in Range(wanted) \ Range(cur) :
                   IndexOf(res, x) < IndexOf(res, y)
            /\ \A x, y \in Range(wanted) \ Range(cur) :
                   IndexOf(wanted, x) < IndexOf(wanted, y) => IndexOf(res, x) < IndexOf(res, y)
            /\ (Range(wanted) \subseteq Range(cur) /\ NoDuplicates(cur)) =>
                   (~plast.changed /\ file = plast.before)

\* A call that merged the wanted hosts into a line that held a host twice,
\* that host not being wanted.
C19_Witness ==
    LET b == plast.read.lines
        w == WhitelistLine(b)
        cur == CurrentHosts(b[w])
    IN  /\ plast.op = "whitelist" /\ w # 0
        /\ plast.wroteFile
        /\ ~NoDuplicates(cur)
        /\ Range(cur) \ Range(plast.args[1]) # {}

\* C20: backup before overwrite.  In every step of a patcher call: if the
\* target is written, the backup holds afterwards exactly what the call read,
\* which is what the target held before the step; the target is never
\* changed in a step that did not write the backup (a write of the backup
\* that fails leaves the target as it was); and a call that found nothing
\* to change leaves both the backup and the target as they were.
C20_BackupBeforeOverwrite ==
    [][ /\ (plast'.wroteFile /\ plast' # plast) =>
              (plast'.wroteBak /\ plast'.read = file /\ bak' = file)
        /\ file' # file => (plast'.wroteBak /\ bak' = file)
        /\ (plast' # plast /\ ~plast'.changed) => (bak' = bak /\ file' = file)
      ]_vars

\* A call that wrote the backup and then changed the target.
C20_Witness ==
    /\ plast.wroteBak /\ plast.wroteFile
    /\ ~plast.again
    /\ bak = plast.before
    /\ file # plast.before

-----------------------------------------------------------------------------
(* Claims about the reconcilers (SpecReconcile) *)

\* The collection a reconcile operation manages
EntityColl(op) == IF op = "add_app" THEN "apps" ELSE "indexers"

IsReq(q, m, c) == q.m = m /\ q.c = c
IsWrite(q) == q.m \in {"POST", "PUT"}
Failed(q) == q.status = 0 \/ q.status >= 400

\* The number of calls of method m on collection c, and of their attempts
Calls(reqs, m, c) == Cardinality({i \in DOMAIN reqs : IsReq(reqs[i], m, c)})
RECURSIVE Attempts(_, _, _)
Attempts(reqs, m, c) ==
    IF reqs = <<>> THEN 0
    ELSE (IF IsReq(Head(reqs), m, c) THEN Head(reqs).attempts ELSE 0)
         + Attempts(Tail(reqs), m, c)

ChangeMessages == {"created", "updated", "tag_created"}
FailureMessages ==
    {"list_failed", "update_error", "update_failed", "create_error", "create_failed",
     "tag_list_failed", "tag_error", "tag_failed", "no_definition"}

\* C1: reconcile idempotence.  When add_app or
\* create_indexer_with_optional_proxy is called a second time with the same
\* arguments, both calls having met no fault and nobody else having changed
\* the remote, the second call sends no POST and no PUT and prints no message
\* of a creation or an update.
C1_ReconcileIdempotent ==
    (rlast.again /\ rlast.faults = 0) =>
        /\ \A i \in DOMAIN rlast.reqs : ~IsWrite(rlast.reqs[i])
        /\ Range(rlast.log) \cap ChangeMessages = {}

\* C4: merge safety of tags.  Every PUT of an indexer that the remote held
\* before the call carries every tag the indexer had, and beyond them only
\* the tag labelled CF_TAG_LABEL.
CfTagIds == {remote.tags[i].id : i \in {j \in DOMAIN remote.tags : remote.tags[j].name = CF_TAG_LABEL}}

C4_TagMerge ==
    \A i \in DOMAIN rlast.reqs :
        LET q == rlast.reqs[i] IN
        IsReq(q, "PUT", "indexers") =>
            \A k \in DOMAIN rlast.before.indexers :
                LET cur == rlast.before.indexers[k] IN
                cur.id = q.id =>
                    /\ Range(cur.tags) \subseteq Range(q.body.tags)
                    /\ Range(q.body.tags) \subseteq Range(cur.tags) \cup CfTagIds

\* The positions of a create that was answered 400 "Should be unique" and
\* whose following re-list succeeded
Conflicts(c) ==
    {i \in DOMAIN rlast.reqs :
        /\ IsReq(rlast.reqs[i], "POST", c) /\ rlast.reqs[i].status = 400
        /\ i < Len(rlast.reqs)
        /\ IsReq(rlast.reqs[i + 1], "GET", c) /\ rlast.reqs[i + 1].status = 200}

CleanFrom(reqs, i) ==
    \A j \in DOMAIN reqs : j >= i => reqs[j].attempts = 1 /\ ~Failed(reqs[j])

\* C5: conflict recovery.  When a create is answered 400 "Should be unique"
\* and the re-list that follows succeeds (it then holds the entity: the remote
\* loses none), add_app returns the id of the application of that name and
\* prints no failure for the create; create_indexer_with_optional_proxy goes
\* on to list the indexers again for the update and, when the requests after
\* the conflict all succeed, ends with a PUT of the indexer and the message of
\* an update.
C5_ConflictRecovery ==
    /\ (rlast.op = "add_app" /\ Conflicts("apps") # {}) =>
          /\ rlast.ret # 0
          /\ \E k \in DOMAIN remote.apps :
                remote.apps[k].id = rlast.ret /\ remote.apps[k].name = rlast.args[1]
          /\ Range(rlast.log) \cap {"create_error", "create_failed"} = {}
    /\ rlast.op = "create_indexer" =>
          \A i \in Conflicts("indexers") :
              /\ Len(rlast.reqs) >= i + 2
              /\ IsReq(rlast.reqs[i + 2], "GET", "indexers")
              /\ CleanFrom(rlast.reqs, i + 1) =>
                    /\ IsReq(rlast.reqs[Len(rlast.reqs)], "PUT", "indexers")
                    /\ rlast.log[Len(rlast.log)] = "updated"

C5_Witness ==
    /\ rlast.op = "add_app"
    /\ Conflicts("apps") # {}
    /\ rlast.reqs[1].status = 200
    /\ rlast.ret # 0

\* Whether the first request of the last call listed its collection with
\* success and the collection held no entity that the call takes for the
\* desired one
ListedAndAbsent ==
    /\ rlast.op # "none" /\ rlast.reqs # <<>>
    /\ IsReq(rlast.reqs[1], "GET", EntityColl(rlast.op)) /\ rlast.reqs[1].status = 200
    /\ \A i \in DOMAIN rlast.reqs :
          IsReq(rlast.reqs[i], "POST", EntityColl(rlast.op)) =>
              \A k \in DOMAIN rlast.before[EntityColl(rlast.op)] :
                  LET e == rlast.before[EntityColl(rlast.op)][k] IN
                  IF rlast.op = "add_app"
                  THEN e.name # rlast.args[1] /\ e.implementation # rlast.args[1]
                  ELSE _norm(e.name) # _norm(rlast.reqs[i].body.name)

\* Whether the remote accepted a create of the last call
CreateAccepted ==
    \E i \in DOMAIN rlast.reqs :
        IsReq(rlast.reqs[i], "POST", EntityColl(rlast.op)) /\ rlast.reqs[i].status = 201

\* C6 (as stated): on the create path the call sends exactly one POST and no
\* PUT and reports a change.
C6_CreatePathOnePost ==
    (ListedAndAbsent /\ CreateAccepted) =>
        /\ Attempts(rlast.reqs, "POST", "apps") + Attempts(rlast.reqs, "POST", "indexers")
             + Attempts(rlast.reqs, "POST", "tags") = 1
        /\ \A i \in DOMAIN rlast.reqs : rlast.reqs[i].m # "PUT"
        /\ "created" \in Range(rlast.log)

\* C6 (amended): on the create path the call makes exactly one POST call on
\* the entity's collection, sent once unless a connection error or read
\* timeout made the wrapper send it again (at most 3 attempts), sends no PUT
\* and prints the message of a creation; for an indexer, at most one more POST
\* goes to /tag, for the tag that ensure_tag_id did not find.
C6_CreatePath ==
    (ListedAndAbsent /\ CreateAccepted) =>
        /\ Calls(rlast.reqs, "POST", EntityColl(rlast.op)) = 1
        /\ Attempts(rlast.reqs, "POST", EntityColl(rlast.op)) \in 1..3
        /\ (CleanFrom(rlast.reqs, 1) => Attempts(rlast.reqs, "POST", EntityColl(rlast.op)) = 1)
        /\ Calls(rlast.reqs, "POST", "tags") <= 1
        /\ (rlast.op = "add_app" => Calls(rlast.reqs, "POST", "tags") = 0)
        /\ \A i \in DOMAIN rlast.reqs : rlast.reqs[i].m # "PUT"
        /\ "created" \in Range(rlast.log)

C6_Witness ==
    /\ ListedAndAbsent /\ CreateAccepted
    /\ rlast.op = "create_indexer"
    /\ Calls(rlast.reqs, "POST", "tags") = 1
    /\ Attempts(rlast.reqs, "POST", "indexers") = 1

\* C7: a failed listing is fatal for the call.  After a GET that failed (a
\* transport error or an error status) the call sends no POST and no PUT, and
\* it prints a failure.
C7_ListingFailureFatal ==
    \A i \in DOMAIN rlast.reqs :
        (rlast.reqs[i].m = "GET" /\ Failed(rlast.reqs[i])) =>
            /\ \A j \in DOMAIN rlast.reqs : j > i => ~IsWrite(rlast.reqs[j])
            /\ Range(rlast.log) \cap FailureMessages # {}

-----------------------------------------------------------------------------
(* Claims about the retrying wrappers (SpecRetry) *)

Retryable(o) == o.kind \in {"ConnectionError", "ReadTimeout"}

\* C8: no retry on a received response.  A response, whatever its status, is
\* the last thing the wrapper gets: it is returned at once and no request
\* follows it; every request that was followed by another ended in a
\* ConnectionError or a ReadTimeout.
C8_NoRetryOnResponse ==
    /\ \A k \in DOMAIN call.outcomes :
          call.outcomes[k].kind = "response" =>
              /\ k = Len(call.outcomes)
              /\ call.pc = "done" /\ call.result = "response"
              /\ call.value = call.outcomes[k]
    /\ \A k \in DOMAIN call.outcomes :
          k < Len(call.outcomes) => Retryable(call.outcomes[k])

C8_Witness ==
    /\ call.result = "response" /\ call.value.status = 503
    /\ Len(call.outcomes) >= 2

\* C9: bounded retry.  A wrapper called with tries >= 1 ends with a response
\* or an exception; when every request ended in a ConnectionError or a
\* ReadTimeout it has sent exactly `tries` requests, slept `delay` seconds
\* between two consecutive ones and not after the last, and raised the
\* exception of the last request.
C9_BoundedRetry ==
    (call.pc = "done" /\ call.fn # "none" /\ call.tries >= 1) =>
        /\ call.result \in {"response", "raised"}
        /\ (\A k \in DOMAIN call.outcomes : Retryable(call.outcomes[k])) =>
              /\ Len(call.outcomes) = call.tries
              /\ Len(call.events) = 2 * call.tries - 1
              /\ \A k \in DOMAIN call.events :
                    call.events[k] = IF k % 2 = 1 THEN <<"send", 0>> ELSE <<"sleep", call.delay>>
              /\ call.result = "raised"
              /\ call.value = call.outcomes[call.tries]

C9_Witness ==
    /\ call.pc = "done" /\ call.tries >= 2
    /\ \A k \in DOMAIN call.outcomes : Retryable(call.outcomes[k])
    /\ call.outcomes[1] # call.outcomes[call.tries]
    /\ call.result = "raised"

-----------------------------------------------------------------------------
(* Claims about the readiness waits (SpecWait) *)

\* C10: readiness timeout.  No probe starts once the deadline computed on
\* entry has passed, the deadline stays what it was on entry, and a wait
\* whose target never became ready ends by returning False.
C10_ReadinessTimeout ==
    /\ \A k \in DOMAIN wait.probes : wait.probes[k].at < wait.deadline
    /\ wait.pc \in {"top", "http", "sleep"} => wait.deadline = wait.entered + wait.timeout
    /\ (wait.pc = "done" /\ wait.fn # "none" /\ wait.target = "never") => wait.result = "false"

\* C11: the criterion of wait_for_http.  A wait_for_http that has returned
\* has returned True exactly when one of its GETs, started before the
\* deadline, was answered with a status below 500; that GET is its last one;
\* after a GET answered 500 or above, or one that raised, the wait sleeps and
\* goes on polling: it ends there only by returning False at the deadline.
C11_HttpCriterion ==
    wait.fn = "wait_for_http" =>
        /\ wait.pc = "done" =>
              (wait.result = "true" <=>
                  \E k \in DOMAIN wait.probes :
                      /\ wait.probes[k].got.kind = "response"
                      /\ wait.probes[k].got.status < 500
                      /\ wait.probes[k].at < wait.deadline)
        /\ wait.result \in {"none", "true", "false"}
        /\ \A k \in DOMAIN wait.probes :
              IF wait.probes[k].got.kind = "response" /\ wait.probes[k].got.status < 500
              THEN k = Len(wait.probes) /\ wait.pc = "done" /\ wait.result = "true"
              ELSE k = Len(wait.probes) =>
                      \/ wait.pc \in {"sleep", "top"}
                      \/ wait.pc = "done" /\ wait.result = "false" /\ clock >= wait.deadline

\* A wait_for_http that returned True on a 404 after a 503 and a GET that raised
C11_Witness ==
    /\ wait.fn = "wait_for_http" /\ wait.result = "true"
    /\ Len(wait.probes) = 3
    /\ wait.probes[1].got = Got("response", 503, "")
    /\ wait.probes[2].got.kind = "raised"
    /\ wait.probes[3].got = Got("response", 404, "")

\* C12: composite container readiness.  A wait_for_container_ready on a
\* container that defines a health check returns True only on the health
\* status "healthy", never on the in-container HTTP probe.
C12_HealthCheckFirst ==
    (wait.fn = "wait_for_container_ready" /\ wait.hc /\ wait.result = "true") =>
        wait.via = "inspect" /\ wait.status = "healthy"

\* The applications listed by the first request of the last call, when that
\* request listed them with success
ListedApps ==
    IF rlast.reqs # <<>> /\ IsReq(rlast.reqs[1], "GET", "apps") /\ rlast.reqs[1].status = 200
    THEN rlast.before.apps ELSE <<>>

\* C13: identity matching order.  When the listing holds an application whose
\* name is the desired name, add_app and set_app_synclevel_and_sync work on
\* that application: every PUT of the call goes to its id, whatever the
\* order of the listing and whatever other application carries the desired
\* name as its implementation.
C13_NameBeforeImplementation ==
    rlast.op \in {"add_app", "set_app_synclevel_and_sync"} =>
        \A k \in DOMAIN ListedApps :
            ListedApps[k].name = rlast.args[1] =>
                \A i \in DOMAIN rlast.reqs :
                    IsReq(rlast.reqs[i], "PUT", "apps") => rlast.reqs[i].id = ListedApps[k].id

\* The definitions of defs whose canonical name or implementation name equals
\* the canonical wanted name, and those that contain it
EqualDefs(defs, name) ==
    {i \in DOMAIN defs : _canon(name) \in {_canon(defs[i].name), _canon(defs[i].implementationName)}}
ContainingDefs(defs, name) ==
    {i \in DOMAIN defs : \/ Contains(_canon(name), _canon(defs[i].name))
                         \/ Contains(_canon(name), _canon(defs[i].implementationName))}
WantedDef(defs, name) ==
    IF EqualDefs(defs, name) # {} THEN Min(EqualDefs(defs, name))
    ELSE IF ContainingDefs(defs, name) # {} THEN Min(ContainingDefs(defs, name))
    ELSE 0

\* C14: indexer definition lookup.  create_indexer_with_optional_proxy works
\* from the first definition whose canonical name or implementation name
\* equals the canonical wanted name, else from the first that contains it:
\* every indexer it POSTs carries the name and the implementation name of
\* that definition.  When no definition contains the wanted name it sends no
\* request at all.
C14_DefinitionLookup ==
    rlast.op = "create_indexer" =>
        LET defs == rlast.args[1]
            d == WantedDef(defs, rlast.args[2])
        IN  /\ d = 0 => rlast.reqs = <<>> /\ rlast.log = <<"no_definition">>
            /\ d # 0 =>
                  /\ rlast.reqs # <<>> /\ IsReq(rlast.reqs[1], "GET", "indexers")
                  /\ \A i \in DOMAIN rlast.reqs :
                        IsReq(rlast.reqs[i], "POST", "indexers") =>
                            /\ rlast.reqs[i].body.name = Or(defs[d].name, defs[d].implementationName)
                            /\ rlast.reqs[i].body.implementation
                                  = Or(defs[d].implementationName, defs[d].name)

\* An indexer created from the second definition of the list, whose name
\* equals the wanted one, the first definition only containing it
C14_Witness ==
    /\ rlast.op = "create_indexer"
    /\ Len(rlast.args[1]) = 2
    /\ EqualDefs(rlast.args[1], rlast.args[2]) = {2}
    /\ ContainingDefs(rlast.args[1], rlast.args[2]) = {1, 2}
    /\ \E i \in DOMAIN rlast.reqs :
          IsReq(rlast.reqs[i], "POST", "indexers") /\ rlast.reqs[i].status = 201

\* Whether two collections hold the same entities (the proxies have two
\* endpoints)
SameEntities(c1, c2) ==
    c1 = c2 \/ {c1, c2} = {"indexerproxy", "proxy"}

\* A write that the remote answered with a rejection other than 400 "Should
\* be unique"
Rejected(q) == IsWrite(q) /\ q.status >= 400 /\ q.status # 400

\* C15: no retry above the transport.  After the remote has answered a POST
\* or a PUT with a rejection other than the duplicate-name error, the call
\* sends no further POST or PUT for that entity.
C15_NoRetryAfterRejection ==
    \A i, j \in DOMAIN rlast.reqs :
        (i < j /\ Rejected(rlast.reqs[i]) /\ IsWrite(rlast.reqs[j]))
            => ~SameEntities(rlast.reqs[i].c, rlast.reqs[j].c)

\* C24: readiness waits never raise.  Every wait that has ended has returned
\* True or False.
C24_WaitsReturnBoolean ==
    (wait.fn # "none" /\ wait.pc = "done") => wait.result \in {"true", "false"}

FieldNames(fields) == {fields[i].name : i \in DOMAIN fields}

\* out keeps every field of existing at its position, with its value unless
\* its name is among the desired names, and holds each desired name that
\* existing lacks exactly once, after the fields of existing
MergedInto(existing, out, desired) ==
    /\ Len(out) = Len(existing) + Cardinality(desired \ FieldNames(existing))
    /\ \A i \in DOMAIN existing :
          /\ out[i].name = existing[i].name
          /\ existing[i].name \notin desired => out[i].value = existing[i].value
    /\ \A n \in desired \ FieldNames(existing) :
          Cardinality({i \in DOMAIN out : out[i].name = n}) = 1

\* The entity of id `id` in collection coll; NoBody when there is none
EntityOf(coll, id) ==
    IF \E k \in DOMAIN coll : coll[k].id = id
    THEN coll[CHOOSE k \in DOMAIN coll : coll[k].id = id]
    ELSE NoBody

\* C26: field merge on update.  _merge_fields keeps every existing field at
\* its position, with its value unless a desired field has its name, and
\* appends each desired field that was not present once.  Every PUT of add_app
\* for an application the remote held carries the application's id, name,
\* implementation, tags and proxy settings unchanged and its fields merged
\* with apiKey, baseUrl and ProwlarrUrl in that way.
C26_FieldMerge ==
    /\ rlast.op = "_merge_fields" =>
          MergedInto(rlast.args[1], rlast.ret, FieldNames(rlast.args[2]))
    /\ rlast.op = "add_app" =>
          \A i \in DOMAIN rlast.reqs :
              LET q == rlast.reqs[i]
                  cur == EntityOf(rlast.before.apps, q.id)
              IN  (IsReq(q, "PUT", "apps") /\ cur # NoBody) =>
                      /\ [q.body EXCEPT !.fields = cur.fields] = cur
                      /\ MergedInto(cur.fields, q.body.fields,
                                    {"apiKey", "baseUrl", "ProwlarrUrl"})

\* C30: conflict recovery applies the desired state.  In every call of add_app
\* or create_indexer_with_optional_proxy, a create answered 400 "Should be
\* unique" whose re-list succeeded (the list then holds the entity) is
\* followed, before the call returns, by a PUT to the same collection.
C30_ConflictThenPut ==
    rlast.op \in {"add_app", "create_indexer"} =>
        \A i \in Conflicts(EntityColl(rlast.op)) :
            \E j \in DOMAIN rlast.reqs :
                j > i + 1 /\ IsReq(rlast.reqs[j], "PUT", EntityColl(rlast.op))

\* The lines of the sub-block whose header is line i: from the header up to
\* the next header or the end of the file
BlockAt(lines, i) == SubSeq(lines, i, NextHeader(lines, i) - 1)

\* The indices of the headers of sub-block nm in the first section named sec
SubIdxs(lines, sec, nm) ==
    LET s == SectionStart(lines, sec)
        e == SectionEnd(lines, NextSection(lines, s))
    IN  IF s = 0 THEN {} ELSE {i \in (s + 1)..(e - 1) : SubMatches(lines[i], nm)}

\* C29: category sub-blocks.  After ensure_sab_categories has read the file:
\* if it had nothing to write or wrote the file, [categories] holds a
\* sub-block of every wanted category; a wanted category that [categories]
\* held already has its headers where they were and nowhere else, and the
\* lines of its blocks are the lines read; and the function returns True
\* exactly when it wrote the file.
C29_CategorySubBlocks ==
    (plast.op = "categories" /\ plast.read.exists) =>
        LET b == plast.read.lines
            a == SplitLines(file)
            wanted == plast.args[1]
        IN  /\ CallOk(plast) =>
                \A n \in DOMAIN wanted : SubCount(a, "categories", wanted[n]) >= 1
            /\ \A n \in DOMAIN wanted :
                   SubIdxs(b, "categories", wanted[n]) # {} =>
                       /\ SubIdxs(a, "categories", wanted[n]) = SubIdxs(b, "categories", wanted[n])
                       /\ \A i \in SubIdxs(b, "categories", wanted[n]) :
                              BlockAt(a, i) = BlockAt(b, i)
            /\ plast.ret = plast.wroteFile

\* The file was written for one missing category while [categories] held
\* the other one, under a variant spelling of its name and with a line of
\* its own.
C29_Witness ==
    LET b == plast.read.lines IN
    /\ plast.op = "categories" /\ plast.wroteFile /\ plast.ret
    /\ SubIdxs(b, "categories", "tv") # {}
    /\ SubIdxs(b, "categories", "movies") = {}
    /\ \E i \in SubIdxs(b, "categories", "tv") : b[i].f = "var" /\ Len(BlockAt(b, i)) > 1

\* The requests of method m on collection c of the last reconcile call
ReqsOf(m, c) == {j \in DOMAIN rlast.reqs : IsReq(rlast.reqs[j], m, c)}

\* Whether the first request of the last reconcile call, its listing, was
\* answered 200
Listed == rlast.reqs # <<>> /\ rlast.reqs[1].m = "GET" /\ rlast.reqs[1].status = 200

\* C27: compare-before-write.  ensure_root_folder sends no POST when the
\* root folders hold one of the same path, a trailing slash ignored;
\* set_arr_updates_to_docker sends no PUT when every update-related key of
\* the host configuration has the desired value already; and
\* set_prowlarr_indexer_priorities, once it has the list of indexers, sends
\* one PUT for each indexer whose priority differs from the target of its
\* protocol (usenet_prio for usenet, torrent_prio for any other), and no
\* other PUT.
C27_CompareBeforeWrite ==
    /\ rlast.op = "ensure_root_folder" =>
           ((\E k \in DOMAIN rlast.before.rootfolder :
                 RStripSlash(rlast.before.rootfolder[k].name) = RStripSlash(rlast.args[1]))
              => ReqsOf("POST", "rootfolder") = {})
    /\ rlast.op = "set_arr_updates_to_docker" =>
           ((\A h \in DOMAIN rlast.before.host : \A i \in DOMAIN rlast.before.host[h].updates :
                 rlast.before.host[h].updates[i].value
                     = DockerValue(rlast.before.host[h].updates[i].name))
              => ReqsOf("PUT", "host") = {})
    /\ (rlast.op = "set_prowlarr_indexer_priorities" /\ Listed) =>
           LET idxs == rlast.before.indexers
               differs(x) == x.priority # (IF LowerWord(x.protocol) = "usenet"
                                          THEN USENET_PRIO ELSE TORRENT_PRIO)
           IN  /\ \A k \in DOMAIN idxs :
                      Cardinality({j \in ReqsOf("PUT", "indexers") :
                                      rlast.reqs[j].id = idxs[k].id})
                          = IF differs(idxs[k]) THEN 1 ELSE 0
               /\ \A j \in ReqsOf("PUT", "indexers") :
                      \E k \in DOMAIN idxs : idxs[k].id = rlast.reqs[j].id

\* Of two indexers listed, a usenet one at the usenet priority and one
\* without protocol at another priority than the torrent one, the second
\* one was sent a PUT, which was not answered 2xx.
C27_Witness ==
    /\ rlast.op = "set_prowlarr_indexer_priorities" /\ Listed
    /\ Len(rlast.before.indexers) = 2
    /\ rlast.before.indexers[1].protocol = "usenet"
    /\ rlast.before.indexers[1].priority = USENET_PRIO
    /\ rlast.before.indexers[2].protocol = ""
    /\ rlast.before.indexers[2].priority # TORRENT_PRIO
    /\ \E j \in ReqsOf("PUT", "indexers") : rlast.reqs[j].status \notin {200, 202}

\* A set_download_client_priorities call that listed the clients and whose
\* requests were all answered 2xx: the priorities the remote holds are those
\* the call assigned
Assigned == rlast.op = "set_download_client_priorities" /\ Listed /\ Clean(rlast)

\* The priorities assigned to the first SABnzbd and the first qBittorrent
\* client are 1 and 2, in the order sab_first asks for
PreferredAssigned ==
    LET a == remote.downloadclient
        sab == FirstClient(a, "SABnzbd")
        qb == FirstClient(a, "QBittorrent")
    IN  /\ (rlast.args[1] /\ sab # 0) =>
               a[sab].priority = 1 /\ (qb # 0 => a[qb].priority = 2)
        /\ ~rlast.args[1] =>
               /\ qb # 0 => a[qb].priority = 1
               /\ sab # 0 => a[sab].priority = 2

\* Every client but the first SABnzbd and the first qBittorrent one has a
\* priority of at least 3: its own when that was at least 3 and was not the
\* priority of one of the two or of a client before it in the list
OthersAssigned ==
    LET b == rlast.before.downloadclient
        a == remote.downloadclient
        top == {FirstClient(b, "SABnzbd"), FirstClient(b, "QBittorrent")}
    IN  \A k \in DOMAIN b \ top :
            /\ a[k].priority >= 3
            /\ (b[k].priority >= 3
                  /\ b[k].priority \notin {a[j].priority : j \in (top \ {0}) \cup (1..(k - 1))})
                 => a[k].priority = b[k].priority

C25_LostUpdate ==
    (job.pc = "done" /\ job.ext = "between" /\ job.wrote) =>
        /\ ExternalLine \notin Range(SplitLines(file))
        /\ ExternalLine \notin Range(SplitLines(job.text))
        /\ bak = job.text

\* The other process wrote between the read and the write of a patcher
\* that then wrote the file.
C25_Witness == job.pc = "done" /\ job.ext = "between" /\ job.wrote

\* The events of the pass of kind k about w
EventsOf(k, w) == {n \in DOMAIN pass.events : pass.events[n].kind = k /\ pass.events[n].what = w}

\* C21: restart on change only.  In a pass that ran to its end SABnzbd,
\* Sonarr, Radarr and Prowlarr were each restarted and probed again exactly
\* if a text-file patcher for that application returned True in the pass.
C21_RestartOnChangeOnly ==
    pass.status = "complete" =>
        \A app \in {"sabnzbd", "sonarr", "radarr", "prowlarr"} :
            (EventsOf("restart", app) # {} /\ EventsOf("reprobe", app) # {})
                <=> (\E n \in EventsOf("patch", app) : pass.events[n].res = "changed")

\* C22: a fatal step halts the sequence.  A pass in which one of the three
\* API keys could not be read has ended with exit status 1, and all it did
\* is the readiness waits and the reading of the keys: no step that sends
\* requests to a service, no patcher, no restart, nothing after the keys.
C22_FatalKeyHalts ==
    (\E n \in EventsOf("read_keys", "") : pass.events[n].res = "missing") =>
        /\ pass.status = "exit1" /\ pass.pc = "done"
        /\ \A n \in DOMAIN pass.events : pass.events[n].kind \in {"probe", "read_keys"}
        /\ pass.events[Len(pass.events)].kind = "read_keys"

\* The readiness waits ran and a key was missing.
C22_Witness ==
    /\ pass.status = "exit1"
    /\ EventsOf("probe", "prowlarr") # {}
    /\ \E n \in EventsOf("read_keys", "") : pass.events[n].res = "missing"

\* The create_indexer_with_optional_proxy calls of the pass, in order
IndexerEvents == {n \in DOMAIN pass.events : pass.events[n].kind = "indexer"}

\* C23: advisory failures do not stop the pass.  No call of
\* create_indexer_with_optional_proxy ends in an exception, whatever the
\* definitions, the remote and the faults; while the loop runs every
\* indexer before the current one has had its call; once a later step has
\* run every wanted indexer has had its call; and a pass that ended in an
\* exception ended in another step than an indexer call.
C23_AdvisoryFailures ==
    /\ \A n \in IndexerEvents : pass.events[n].res # "raised"
    /\ pass.pc = "indexers" =>
           pass.status = "running" /\ Cardinality(IndexerEvents) = pass.i - 1
    /\ \A n \in EventsOf("remote", "rootfolders") :
           Cardinality({m \in IndexerEvents : m < n}) = Len(pass.wanted)
    /\ (pass.status = "raised" /\ pass.events # <<>>) =>
           pass.events[Len(pass.events)].kind = "remote"

\* The call for the first of two indexers found no definition or was
\* refused, the second one had its call and the pass went on to the root
\* folders.
C23_Witness ==
    /\ Len(pass.wanted) = 2
    /\ Cardinality(IndexerEvents) = 2
    /\ \E n \in EventsOf("indexer", "first") :
           pass.events[n].res \in {"no_definition", "failed"}
    /\ EventsOf("remote", "rootfolders") # {}

\* C36: distinct priorities.  After a call that assigned the priorities of
\* a list holding a SABnzbd or a qBittorrent client, no two clients have the
\* same priority.
C36_DistinctPriorities ==
    (Assigned /\ (FirstClient(rlast.before.downloadclient, "SABnzbd") # 0
                    \/ FirstClient(rlast.before.downloadclient, "QBittorrent") # 0)) =>
        \A j, k \in DOMAIN remote.downloadclient :
            remote.downloadclient[j].priority = remote.downloadclient[k].priority => j = k

\* The positions of the schema fields that have a name
NamedIdx(fs) == {i \in DOMAIN fs : fs[i].name # ""}

\* C32: create payload fields.  The list _build_fields_with_overrides
\* returns has one entry for each schema field that has a name, in schema
\* order, and no other entry; the value of an entry is the override of that
\* name when the override map holds a non-empty one, otherwise the schema
\* field's value when the field has the key "value", otherwise its
\* defaultValue.
C32_CreatePayloadFields ==
    rlast.op = "_build_fields_with_overrides" =>
        LET fs == rlast.args[1]
            ov == rlast.args[2]
            out == rlast.ret
        IN  /\ Len(out) = Cardinality(NamedIdx(fs))
            /\ \A i \in NamedIdx(fs) :
                   LET k == Cardinality({j \in NamedIdx(fs) : j <= i})
                   IN  /\ out[k].name = fs[i].name
                       /\ out[k].value =
                              IF fs[i].name \in DOMAIN ov /\ ov[fs[i].name] # ""
                              THEN ov[fs[i].name]
                              ELSE IF fs[i].has THEN fs[i].value ELSE fs[i].defaultValue

\* A schema of a field without name and a field with an empty value, and an
\* override map with an empty override for that field and an override for a
\* name outside the schema: the one entry built has the empty value.
C32_Witness ==
    /\ rlast.op = "_build_fields_with_overrides"
    /\ rlast.args[1] = <<SchemaField("", TRUE, "v", "d"), SchemaField("b", TRUE, "", "d")>>
    /\ DOMAIN rlast.args[2] = {"b", "z"}
    /\ rlast.args[2]["b"] = "" /\ rlast.args[2]["z"] = "ov"
    /\ rlast.ret = <<Field("b", "")>>


\* C34: trailing newline.  The content a patcher call wrote to the file ends
\* with a line terminator.
C34_TrailingNewline ==
    plast.wroteFile => EndsWithNewline(file)


\* The positions of the lines `key = ...` inside the first [misc] section of
\* lines, up to the next top-level header
MiscKeyIdxs(lines, key) ==
    LET s == SectionStart(lines, "misc")
        e == SectionEnd(lines, NextSection(lines, s))
    IN  IF s = 0 THEN {}
        ELSE {i \in (s + 1)..(e - 1) : KeyMatches(lines[i], key)}

\* The three keys ensure_sab_folders sets, each with its desired value
FolderKeys ==
    { <<"download_dir", INCOMPLETE_DOWNLOADS>>, <<"complete_dir", COMPLETED_DOWNLOADS>>,
      <<"dir_base", <<>>>> }

\* C33: no duplicated keys in [misc].  When each of download_dir,
\* complete_dir and dir_base occurred at most once inside [misc] of the
\* document read, then after a call of ensure_sab_folders that read the file
\* and wrote what it had to each of the three keys occurs exactly once inside
\* [misc] and carries the desired value.
C33_NoDuplicatedKeys ==
    ( /\ plast.op = "folders"
      /\ CallOk(plast)
      /\ \A kv \in FolderKeys :
             Cardinality(MiscKeyIdxs(SplitLines(plast.read), kv[1])) <= 1 ) =>
        \A kv \in FolderKeys :
            /\ Cardinality(MiscKeyIdxs(SplitLines(file), kv[1])) = 1
            /\ \A i \in MiscKeyIdxs(SplitLines(file), kv[1]) :
                   CurValue(SplitLines(file)[i]) = kv[2]


\* C38: backup across a sequence of patches.  Every patcher call that read
\* the file and wrote what it had to read the content the calls before it
\* left; when it changed the target, the backup holds the content the target
\* had before the call; when it did not, the backup is what it was.  So after
\* any sequence of such calls the backup holds the content the target had
\* before the most recent call that changed it.
C38_BackupAcrossSequence ==
    [][ CallOk(plast') =>
            /\ plast'.read = file
            /\ IF file' # file THEN bak' = file
               ELSE bak' = bak ]_vars

\* Three patchers have changed the file one after another: the target holds
\* the whitelist, the categories and the language, and the backup the content
\* without the language that the last call read.
C38_Witness ==
    /\ plast.op = "language" /\ CallOk(plast) /\ plast.changed
    /\ \E i \in DOMAIN file.lines : file.lines[i] = Kv("language", SAB_LANG, "canon")
    /\ \E i \in DOMAIN bak.lines : bak.lines[i] = Kv("host_whitelist", SAB_WHITELIST, "canon")
    /\ \E i \in DOMAIN bak.lines : SubMatches(bak.lines[i], "movies")
    /\ \A i \in DOMAIN bak.lines : ~KeyMatches(bak.lines[i], "language")
    /\ bak = plast.before


\* The requests of method m the last call sent for an indexer, one for each
\* call of the retry wrapper
IndexerReqs(m) == {i \in DOMAIN rlast.reqs : rlast.reqs[i].m = m /\ rlast.reqs[i].c = "indexers"}

\* C35: bounded conflict recovery.  Whatever the remote does, one call of
\* create_indexer_with_optional_proxy issues at most one POST and at most one
\* PUT for the indexer.
C35_BoundedConflictRecovery ==
    rlast.op = "create_indexer" =>
        /\ Cardinality(IndexerReqs("POST")) <= 1
        /\ Cardinality(IndexerReqs("PUT")) <= 1


\* The readiness waits of the pass that returned False
TimedOut ==
    {n \in DOMAIN pass.events :
        /\ pass.events[n].kind = "probe"
        /\ pass.events[n].res = "timeout"}

\* C31: readiness gates reconciliation.  In a pass in which the readiness
\* wait for one of Radarr, Sonarr, Prowlarr and qBittorrent returned False,
\* no step that sends reconcile requests to an application has run.
C31_ReadinessGates ==
    TimedOut # {} =>
        \A n \in DOMAIN pass.events : pass.events[n].kind \notin {"remote", "indexer"}


\* C37: single restart per pass.  In one pass SABnzbd receives at most one
\* restart command, and every patcher call of the pass on the SABnzbd file
\* comes before it.
C37_SingleRestart ==
    /\ Cardinality(EventsOf("restart", "sabnzbd")) <= 1
    /\ \A r \in EventsOf("restart", "sabnzbd") : \A n \in EventsOf("patch", "sabnzbd") : n < r


\* C39: watchdog enable gate.  Past the gate, the watcher is at the head of
\* its polling loop when VPN_WATCHDOG_ENABLED is set to "true" in any letter
\* case, and otherwise it has quit without polling or publishing.
C39_EnableGate ==
    watch.pc \in {"quit", "loop"} =>
        IF watch.set /\ MapSeq(Lower, watch.env) = <<"t", "r", "u", "e">>
        THEN watch.pc = "loop"
        ELSE watch.pc = "quit" /\ watch.polls = 0 /\ watch.retained = "none"

=============================================================================
